---- MODULE Spec2Model ----
(***************************************************************************)
(* Verification model of parts of the Wind Waker scene code:              *)
(*   - the JStudio cutscene sequencer (STBObject.forward, TControl),      *)
(*   - the foliage packets' budgeted ground checks (WindWaker/Grass.ts),  *)
(*   - the ModelCache file/archive cache with its promise bookkeeping,    *)
(*   - the renderer's frame: actor visibility, toon texture, pass order,  *)
(*   - the weather trigger d_a_kytag00 and the grass spawner d_a_grass,   *)
(*   - the FVB list-parameter curve and the actor animation frame.        *)
(* Each part has its own Init/Next pair over the shared variables; the    *)
(* variables of the other parts stay at their initial value.              *)
(***************************************************************************)
EXTENDS Integers, Sequences, FiniteSets, TLC

VARIABLES
    obj,        \* STBObject fields, per object id (0 = TControl.mControlObject)
    mData,      \* per object id: the sequence program held by its block
    ctl,        \* TControl fields and the loop state of TControl.forward
    run,        \* position of the STBObject.forward call in progress
    calls,      \* adaptor callbacks / commands / status writes of that call
    hist        \* per object id: lifetime counts of begin and end callbacks,
                \* and whether the host ever called setSuspend on it

VARIABLES
    packet,     \* one foliage packet: its kind, its per-room instance lists
                \* and the phase of its shared idle animation
    globals,    \* dGlobals: mStayNo
    queries     \* ground-height queries of the latest update call, in order

VARIABLES
    mc,         \* ModelCache: its four caches, the mounted object archives,
                \* and the runtime under it: promises, the microtask queue
                \* and the requests handed to the data fetcher
    obs         \* what callers observed: the result of every fetchFileData
                \* call and the answers of requestObjectData

VARIABLES
    rdr         \* WindWakerRenderer: room/layer/object visibility settings,
                \* the processes of the draw queue, the toon texture, and
                \* the device operations of the latest render call

VARIABLES
    kytag       \* one d_a_kytag00 actor, the environment light fields it
                \* writes, and what its latest tick did

VARIABLES
    spawn,      \* one d_a_grass actor and the three foliage packets of
                \* globals.scnPlay it registers instances with
    fv,         \* one FunctionValue_ListParameter: its keys, interpolation
                \* attribute, chosen evaluator and its latest getValue call
    animCall    \* the latest TActorAdaptor.computeAnimFrame call

VARIABLES
    settle,     \* the scene's spawn phase: whether actors still register
                \* foliage, the update calls since they stopped, and how
                \* often each instance was ground-checked
    drawn,      \* the draw side of the four packets: the material
                \* parameter block they share, which rooms hold instances,
                \* and the batches the latest draw call captured
    actor       \* one TActorObject: the tracks of its adaptor, the game
                \* object behind it, and what its latest step did

stbVars == <<obj, mData, ctl, run, calls, hist>>
grassVars == <<packet, globals, queries>>
cacheVars == <<mc, obs>>
calcVars == <<spawn, fv, animCall>>
lateVars == <<settle, drawn, actor>>
sceneVars == <<rdr, kytag, spawn, fv, animCall, lateVars>>
othersOfRdr == <<stbVars, grassVars, cacheVars, kytag, calcVars, lateVars>>
othersOfKytag == <<stbVars, grassVars, cacheVars, rdr, calcVars, lateVars>>
othersOfSpawn == <<stbVars, grassVars, cacheVars, rdr, kytag, fv, animCall, lateVars>>
othersOfFv == <<stbVars, grassVars, cacheVars, rdr, kytag, spawn, animCall, lateVars>>
othersOfAnim == <<stbVars, grassVars, cacheVars, rdr, kytag, spawn, fv, lateVars>>
othersOfSettle == <<globals, stbVars, cacheVars, rdr, kytag, calcVars, drawn, actor>>
othersOfDrawn == <<stbVars, grassVars, cacheVars, rdr, kytag, calcVars, settle, actor>>
othersOfActor == <<stbVars, grassVars, cacheVars, rdr, kytag, calcVars, settle, drawn>>

vars == <<obj, mData, ctl, run, calls, hist, packet, globals, queries, mc, obs, rdr, kytag,
         spawn, fv, animCall, settle, drawn, actor>>

(***************************************************************************)
(* Bounds of the model.                                                    *)
(***************************************************************************)
MaxCmds == 2          \* commands in a program before its final End
MaxWait == 2          \* largest Wait parameter
MaxSuspendParam == 1  \* largest Suspend parameter
MaxFrames == 2        \* largest frameCount handed to forward
MaxHostSuspend == 1   \* largest count the host passes to setSuspend
RoomCount == 2        \* rooms of a packet (the program has 64)
MaxInstances == 9     \* instances stored in a packet
MaxCalls == 3         \* fetchFileData calls per behaviour
MaxSettleCalls == 3   \* update calls followed after the last spawn
MaxParagraphs == 2    \* property-update paragraphs of an actor's sequence
MaxActorUpdates == 2  \* update callbacks of an actor's sequence
MaxObjFetches == 1    \* direct fetchObjectData calls per behaviour
MaxStageCalls == 2    \* setCurrentStage calls per behaviour
MaxLayer == 1         \* highest room layer (the program has layers 0..11)
MaxKeys == 3          \* keys of a list-parameter curve
MaxKeyTime == 3       \* latest key time of a curve
MaxAnimFrame == 10    \* largest maxFrame handed to computeAnimFrame

(***************************************************************************)
(* JStudio: enums and the sequence data.                                   *)
(***************************************************************************)
ESequenceCmd_End == 0
ESequenceCmd_SetFlag == 1
ESequenceCmd_Wait == 2
ESequenceCmd_Skip == 3
ESequenceCmd_Suspend == 4
ESequenceCmd_Paragraph == 128

EStatus_Still == 0
EStatus_End == 1
EStatus_Wait == 2
EStatus_Suspend == 4
EStatus_Inactive == 8

FlagInactive == 32768

\* Byte offset of the first command: 0xC + align(id.length + 1, 4), for a
\* block id of up to three characters.
SeqStart == 16

Cmd(c, p) == [cmd |-> c, param |-> p]

\* Size in bytes of one command: a command word, plus the paragraph payload.
CmdSize(c) == IF c.cmd > 127 THEN 4 + c.param ELSE 4

RECURSIVE OffsetOf(_, _)
\* Byte offset of the i-th command of a program.
OffsetOf(prog, i) == IF i = 1 THEN SeqStart ELSE OffsetOf(prog, i - 1) + CmdSize(prog[i - 1])

\* The command word read at a byte offset (view.getUint8 / getUint32).
CmdAt(prog, byteIdx) ==
    LET hits == {i \in 1..Len(prog) : OffsetOf(prog, i) = byteIdx}
    IN  IF hits = {} THEN Cmd(ESequenceCmd_End, 0) ELSE prog[CHOOSE i \in hits : TRUE]

Ev(e, n) == [ev |-> e, n |-> n]

\* An STBObject after construction from a block (or, for the control object,
\* without one: pSequence_next is then undefined, which is falsy like 0).
NewObject(flags, hasAdaptor, hasBlock) ==
    [mFlags |-> flags, mStatus |-> EStatus_Still, mIsSequence |-> FALSE,
     mSuspendFrames |-> 0, pSequence |-> 0,
     pSequence_next |-> IF hasBlock THEN SeqStart ELSE 0,
     mWait |-> 0, mAdaptor |-> hasAdaptor]

isSuspended_off_by_one(o) == o.mSuspendFrames > 1
isSuspended(o) == o.mSuspendFrames > 0

\* do_begin / do_end / do_wait reach the adaptor only when there is one.
do_begin(o) == IF o.mAdaptor THEN <<Ev("begin", 0)>> ELSE <<>>
do_end(o) == IF o.mAdaptor THEN <<Ev("end", 0)>> ELSE <<>>
do_wait_unpaid(o, frameCount) == IF o.mAdaptor THEN <<Ev("update", 0)>> ELSE <<>>
do_wait(o, frameCount) == IF o.mAdaptor THEN <<Ev("update", frameCount)>> ELSE <<>>

SetStatus(o, s) == [o EXCEPT !.mStatus = s]

\* process_sequence: decode the command at pSequence, store the offset of
\* the next one, then execute it.  Every case but Paragraph and default
\* starts with this.mAdaptor.log(...), which throws without an adaptor.
process_sequence(o, prog) ==
    LET byteIdx == o.pSequence
        c == CmdAt(prog, byteIdx)
        next == IF c.cmd = 0 THEN 0
                ELSE IF c.cmd <= 127 THEN byteIdx + 4
                ELSE byteIdx + 4 + c.param
        o1 == [o EXCEPT !.pSequence_next = next]
        logs == c.cmd \in {ESequenceCmd_End, ESequenceCmd_SetFlag, ESequenceCmd_Wait,
                           ESequenceCmd_Skip, ESequenceCmd_Suspend}
    IN  IF logs /\ ~o.mAdaptor
        THEN [obj |-> o1, out |-> "throw", events |-> <<>>]
        ELSE [obj |-> CASE c.cmd = ESequenceCmd_Wait -> [o1 EXCEPT !.mWait = c.param]
                        [] c.cmd = ESequenceCmd_Suspend ->
                             [o1 EXCEPT !.mSuspendFrames = o1.mSuspendFrames + c.param]
                        [] OTHER -> o1,
              out |-> "ok",
              events |-> <<Ev("cmd", byteIdx)>>]

\* The frame-budget step at the bottom of the inner loop (mWait > 0).
consume_wait_stalled(o, frameCount) ==
    IF frameCount >= o.mWait
    THEN [obj |-> [o EXCEPT !.mWait = 0], frameCount |-> frameCount - o.mWait,
          out |-> "continue", events |-> do_wait(o, o.mWait)]
    ELSE [obj |-> o, frameCount |-> frameCount,
          out |-> "true", events |-> do_wait(o, frameCount)]
consume_wait_strict(o, frameCount) ==
    IF frameCount > o.mWait
    THEN [obj |-> [o EXCEPT !.mWait = 0], frameCount |-> frameCount - o.mWait,
          out |-> "continue", events |-> do_wait(o, o.mWait)]
    ELSE [obj |-> [o EXCEPT !.mWait = o.mWait - frameCount], frameCount |-> frameCount,
          out |-> "true", events |-> do_wait(o, frameCount)]
consume_wait(o, frameCount) ==
    IF frameCount >= o.mWait
    THEN [obj |-> [o EXCEPT !.mWait = 0], frameCount |-> frameCount - o.mWait,
          out |-> "continue", events |-> do_wait(o, o.mWait)]
    ELSE [obj |-> [o EXCEPT !.mWait = o.mWait - frameCount], frameCount |-> frameCount,
          out |-> "true", events |-> do_wait(o, frameCount)]

\* The test of the top bit of mFlags (this.mFlags & 0x8000).
HasInactiveFlag_wrong_bit(o) == (o.mFlags \div 16384) % 2 = 1
HasInactiveFlag(o) == (o.mFlags \div FlagInactive) % 2 = 1

\* The body of the suspend gate: a running sequence becomes Suspend and is
\* updated once with the whole frameCount; the tick ends in either case.
suspend_tick_countdown(o, frameCount) ==
    IF o.mIsSequence
    THEN IF o.mStatus \notin {EStatus_Wait, EStatus_Suspend}
         THEN [obj |-> o, out |-> "assert", events |-> <<>>]
         ELSE [obj |-> [o EXCEPT !.mStatus = EStatus_Suspend,
                                 !.mSuspendFrames = IF @ > frameCount THEN @ - frameCount ELSE 0],
               out |-> "true",
               events |-> <<Ev("status", EStatus_Suspend)>> \o do_wait(o, frameCount)]
    ELSE [obj |-> o, out |-> "true", events |-> <<>>]
suspend_tick(o, frameCount) ==
    IF o.mIsSequence
    THEN IF o.mStatus \notin {EStatus_Wait, EStatus_Suspend}
         THEN [obj |-> o, out |-> "assert", events |-> <<>>]
         ELSE [obj |-> SetStatus(o, EStatus_Suspend), out |-> "true",
               events |-> <<Ev("status", EStatus_Suspend)>> \o do_wait(o, frameCount)]
    ELSE [obj |-> o, out |-> "true", events |-> <<>>]

\* One pass of the outer loop of forward up to the inner loop: the 0x8000
\* check, the restart of an Inactive object and the suspend gate.
forward_outer(o, ctlSuspended, frameCount) ==
    IF HasInactiveFlag(o)
    THEN IF o.mStatus # EStatus_Inactive
         THEN [obj |-> SetStatus(o, EStatus_Inactive), out |-> "true",
               events |-> <<Ev("status", EStatus_Inactive)>>
                          \o (IF o.mIsSequence THEN do_end(o) ELSE <<>>)]
         ELSE [obj |-> o, out |-> "true", events |-> <<>>]
    ELSE IF o.mStatus = EStatus_Inactive /\ ~o.mIsSequence
    THEN [obj |-> o, out |-> "assert", events |-> <<>>]
    ELSE LET restart == o.mStatus = EStatus_Inactive
             o1 == IF restart THEN SetStatus(o, EStatus_Wait) ELSE o
             ev1 == IF restart THEN do_begin(o) \o <<Ev("status", EStatus_Wait)>> ELSE <<>>
         IN  IF ctlSuspended \/ isSuspended(o1)
             THEN LET st == suspend_tick(o1, frameCount)
                  IN  [obj |-> st.obj, out |-> st.out, events |-> ev1 \o st.events]
             ELSE [obj |-> o1, out |-> "inner", events |-> ev1]

\* The end of the sequence (pSequence = 0): one zero-length update if no
\* wait was served in this call, then status End and the end callback.
end_sequence_still_running(o, hasWaited) ==
    IF o.mIsSequence
    THEN IF o.mStatus = EStatus_Still
         THEN [obj |-> o, out |-> "assert", events |-> <<>>]
         ELSE [obj |-> [o EXCEPT !.mStatus = EStatus_End],
               out |-> "false",
               events |-> (IF ~hasWaited THEN do_wait(o, 0) ELSE <<>>)
                          \o <<Ev("status", EStatus_End)>> \o do_end(o)]
    ELSE [obj |-> o, out |-> "false", events |-> <<>>]
end_sequence_no_flush(o, hasWaited) ==
    IF o.mIsSequence
    THEN IF o.mStatus = EStatus_Still
         THEN [obj |-> o, out |-> "assert", events |-> <<>>]
         ELSE [obj |-> [o EXCEPT !.mIsSequence = FALSE, !.mStatus = EStatus_End],
               out |-> "false",
               events |-> <<Ev("status", EStatus_End)>> \o do_end(o)]
    ELSE [obj |-> o, out |-> "false", events |-> <<>>]
end_sequence(o, hasWaited) ==
    IF o.mIsSequence
    THEN IF o.mStatus = EStatus_Still
         THEN [obj |-> o, out |-> "assert", events |-> <<>>]
         ELSE [obj |-> [o EXCEPT !.mIsSequence = FALSE, !.mStatus = EStatus_End],
               out |-> "false",
               events |-> (IF ~hasWaited THEN do_wait(o, 0) ELSE <<>>)
                          \o <<Ev("status", EStatus_End)>> \o do_end(o)]
    ELSE [obj |-> o, out |-> "false", events |-> <<>>]

\* One iteration of the inner loop of forward.
forward_inner(o, prog, frameCount, hasWaited) ==
    LET o1 == [o EXCEPT !.pSequence = o.pSequence_next]
    IN  IF o1.pSequence = 0
        THEN LET es == end_sequence(o1, hasWaited)
             IN  [obj |-> es.obj, frameCount |-> frameCount, hasWaited |-> hasWaited,
                  out |-> es.out, events |-> es.events]
        ELSE IF ~o1.mIsSequence /\ o1.mStatus # EStatus_Still
        THEN [obj |-> o1, frameCount |-> frameCount, hasWaited |-> hasWaited,
              out |-> "assert", events |-> <<>>]
        ELSE LET start == ~o1.mIsSequence
                 o2 == [o1 EXCEPT !.mIsSequence = TRUE, !.mStatus = EStatus_Wait]
                 ev2 == (IF start THEN do_begin(o1) ELSE <<>>) \o <<Ev("status", EStatus_Wait)>>
                 ps == IF o2.mWait = 0 THEN process_sequence(o2, prog)
                       ELSE [obj |-> o2, out |-> "ok", events |-> <<>>]
                 o3 == ps.obj
                 ev3 == ev2 \o ps.events
             IN  IF ps.out = "throw"
                 THEN [obj |-> o3, frameCount |-> frameCount, hasWaited |-> hasWaited,
                       out |-> "throw", events |-> ev3]
                 ELSE IF o3.mWait = 0
                 THEN [obj |-> o3, frameCount |-> frameCount, hasWaited |-> hasWaited,
                       out |-> "break", events |-> ev3]
                 ELSE LET cw == consume_wait(o3, frameCount)
                      IN  [obj |-> cw.obj, frameCount |-> cw.frameCount, hasWaited |-> TRUE,
                           out |-> cw.out, events |-> ev3 \o cw.events]

(***************************************************************************)
(* Bit operations on the status words.                                     *)
(***************************************************************************)
RECURSIVE BitAnd(_, _)
BitAnd(a, b) == IF a = 0 \/ b = 0 THEN 0
                ELSE (a % 2) * (b % 2) + 2 * BitAnd(a \div 2, b \div 2)

RECURSIVE BitOr(_, _)
BitOr(a, b) == IF a = 0 THEN b ELSE IF b = 0 THEN a
               ELSE (IF a % 2 = 1 \/ b % 2 = 1 THEN 1 ELSE 0) + 2 * BitOr(a \div 2, b \div 2)

(***************************************************************************)
(* Programs the model runs: up to MaxCmds commands, closed by End.  A      *)
(* Paragraph command carries one empty reserved 0x82 paragraph (4 bytes).  *)
(***************************************************************************)
Alphabet ==
    {Cmd(ESequenceCmd_Wait, w) : w \in 0..MaxWait}
    \cup {Cmd(ESequenceCmd_Suspend, n) : n \in 1..MaxSuspendParam}
    \cup {Cmd(ESequenceCmd_SetFlag, 1), Cmd(ESequenceCmd_Paragraph, 4)}

Programs ==
    {body \o <<Cmd(ESequenceCmd_End, 0)>> :
        body \in UNION {[1..n -> Alphabet] : n \in 0..MaxCmds}}

\* Programs of a control block; <<>> stands for a script without one.
CtlPrograms == {<<>>, <<Cmd(ESequenceCmd_Suspend, 1), Cmd(ESequenceCmd_End, 0)>>}

\* Programs of the bound objects of a script with two of them.
ShortPrograms ==
    {<<Cmd(ESequenceCmd_End, 0)>>,
     <<Cmd(ESequenceCmd_Wait, 2), Cmd(ESequenceCmd_End, 0)>>}

\* Programs of the bound objects of a script that is ticked to its end.
FinishPrograms ==
    ShortPrograms \cup {<<Cmd(ESequenceCmd_Suspend, 1), Cmd(ESequenceCmd_End, 0)>>}

\* Object ids: the control object and the places of TControl.mObjects.
ObjIds == {0, 1, 2}
CtlObj == 0
BoundIds == ObjIds \ {CtlObj}

(***************************************************************************)
(* Foliage packets (WindWaker/Grass.ts).  An instance keeps its flag word, *)
(* the Y of its position and its model matrix, which is the identity       *)
(* (mat4.create()) until update composes it from the position and the      *)
(* current idle-animation matrix.  The ground below an instance is that    *)
(* of its room: a hit height, or NegInfinity where GroundCross misses.     *)
(***************************************************************************)
kMaxGroundChecksPerFrame == 8

isFrustumCulled == 1
needsGroundCheck == 2

NegInfinity == 0 - 1000
SpawnY == 5

\* The stage the model runs on: rooms with an even index have ground at
\* height 0 below every instance, rooms with an odd index have none.
GroundCross(roomIdx) == IF roomIdx % 2 = 0 THEN 0 ELSE NegInfinity

Rooms == 0..(RoomCount - 1)
PacketKinds == {"Flower", "Tree", "Grass", "Bush"}

HasBit(flags, bit) == (flags \div bit) % 2 = 1
ClearBit(flags, bit) == IF HasBit(flags, bit) THEN flags - bit ELSE flags

Identity == [y |-> 0, anim |-> 0 - 1]
ModelMtx(y, anim) == [y |-> y, anim |-> anim]

\* newData: the record pushed on the room's list.
NewInstance == [flags |-> needsGroundCheck, y |-> SpawnY, modelMtx |-> Identity]

\* The free function checkGroundY (Flower, Grass): the hit height, or the
\* instance's own Y on a miss.
checkGroundY(y, ground) == IF ground > NegInfinity THEN ground ELSE y

\* TreePacket.checkGroundY / BushPacket.checkGroundY: both branches store
\* the query result in pos[1] and the result is returned.
checkGroundY_packet(y, ground) == ground

GroundY(kind, y, ground) ==
    IF kind \in {"Tree", "Bush"} THEN checkGroundY_packet(y, ground)
    ELSE checkGroundY(y, ground)

\* The condition under which an instance is ground-checked, with n checks
\* already made in this update call.
ShouldCheck_unbudgeted(kind, data, n) == HasBit(data.flags, needsGroundCheck)
ShouldCheck(kind, data, n) ==
    IF kind \in {"Flower", "Bush"}
    THEN HasBit(data.flags, needsGroundCheck) /\ n < kMaxGroundChecksPerFrame
    ELSE HasBit(data.flags, needsGroundCheck)

\* The body of the per-instance loop after the budget test: ground check,
\* then the model matrix of a non-culled instance.  The loops below bind
\* the state after a step as "next", the one value the rest of the loop
\* works on.
StepInstance(kind, st, roomIdx, i, anim) ==
    LET data == st.rooms[roomIdx][i]
        chk == ShouldCheck(kind, data, st.n)
        d1 == IF chk
              THEN [data EXCEPT !.y = GroundY(kind, data.y, GroundCross(roomIdx)),
                                !.flags = ClearBit(data.flags, needsGroundCheck)]
              ELSE data
        d2 == IF ~HasBit(d1.flags, isFrustumCulled)
              THEN [d1 EXCEPT !.modelMtx = ModelMtx(d1.y, anim)]
              ELSE d1
    IN  [rooms |-> [st.rooms EXCEPT ![roomIdx][i] = d2],
         n |-> IF chk THEN st.n + 1 ELSE st.n,
         queries |-> IF chk THEN Append(st.queries, [room |-> roomIdx, idx |-> i])
                     ELSE st.queries]

RECURSIVE Flower_update_from(_, _, _, _)
\* FlowerPacket.update: every room in index order, every instance in order.
Flower_update_from(st, roomIdx, i, anim) ==
    IF roomIdx >= RoomCount THEN st
    ELSE IF i > Len(st.rooms[roomIdx]) THEN Flower_update_from(st, roomIdx + 1, 1, anim)
    ELSE CHOOSE out \in {Flower_update_from(next, roomIdx, i + 1, anim) :
                             next \in {StepInstance("Flower", st, roomIdx, i, anim)}} : TRUE

RECURSIVE updateRoom_from(_, _, _, _, _)
\* TreePacket / GrassPacket / BushPacket.updateRoom: the loop leaves the
\* room as soon as the budget is used up.
updateRoom_from(kind, st, roomIdx, i, anim) ==
    IF i > Len(st.rooms[roomIdx]) THEN st
    ELSE IF st.n >= kMaxGroundChecksPerFrame THEN st
    ELSE CHOOSE out \in {updateRoom_from(kind, next, roomIdx, i + 1, anim) :
                             next \in {StepInstance(kind, st, roomIdx, i, anim)}} : TRUE

updateRoom(kind, st, roomIdx, anim) == updateRoom_from(kind, st, roomIdx, 1, anim)

\* An update that stops after the current room.
updateOthers_none(kind, st, roomIdx, stay, anim) == st

RECURSIVE updateOthers(_, _, _, _, _)
\* The loop over the rooms that follows the current room.
updateOthers(kind, st, roomIdx, stay, anim) ==
    IF roomIdx >= RoomCount THEN st
    ELSE IF st.n > kMaxGroundChecksPerFrame THEN st
    ELSE IF roomIdx = stay THEN updateOthers(kind, st, roomIdx + 1, stay, anim)
    ELSE CHOOSE out \in {updateOthers(kind, next, roomIdx + 1, stay, anim) :
                             next \in {updateRoom(kind, st, roomIdx, anim)}} : TRUE

\* update(globals) of the packet of the given kind.
update(kind, rooms, stay, anim) ==
    LET st0 == [rooms |-> rooms, n |-> 0, queries |-> <<>>]
    IN  IF kind = "Flower" THEN Flower_update_from(st0, 0, 1, anim)
        ELSE CHOOSE out \in {updateOthers(kind, next, 0, stay, anim) :
                                 next \in {updateRoom(kind, st0, stay, anim)}} : TRUE

(***************************************************************************)
(* Drawing the packets.  The module keeps one MaterialParams block that    *)
(* every drawRoom of every packet writes; fillMaterialParamsDataOnInst     *)
(* copies the block as it is at the call into the batch's template.  A     *)
(* colour is a pair of its origin and the room it belongs to.              *)
(***************************************************************************)
colorC0(roomNo) == <<"tevStr.colorC0", roomNo>>
colorK0(roomNo) == <<"tevStr.colorK0", roomNo>>
l_shadowColor == <<"l_shadowColor", 0>>
NewColor == <<"new Color", 0>>
TreeAlpha == <<"alpha", 1>>
White == <<"white", 1>>

\* new MaterialParams()
NewMaterialParams == [C0 |-> NewColor, C1 |-> NewColor, C2 |-> NewColor]

setColorFromRoomNo(materialParams, roomNo) ==
    [materialParams EXCEPT !.C0 = colorC0(roomNo), !.C1 = colorK0(roomNo)]

\* material.fillMaterialParamsDataOnInst(template, offs, materialParams)
\* of the batch "pass" of the room: the block's colours are copied.
fillMaterialParamsDataOnInst(st, kind, roomIdx, pass, opaque) ==
    [st EXCEPT !.batches = Append(@, [kind |-> kind, room |-> roomIdx, pass |-> pass,
                                      opaque |-> opaque,
                                      C0 |-> st.materialParams.C0,
                                      C1 |-> st.materialParams.C1])]

\* One flower batch: colours of the room, then the capture.
Flower_batch(st, roomIdx, pass) ==
    fillMaterialParamsDataOnInst(
        [st EXCEPT !.materialParams = setColorFromRoomNo(@, roomIdx)],
        "Flower", roomIdx, pass, TRUE)

Flower_drawRoom(st, roomIdx) ==
    Flower_batch(Flower_batch(Flower_batch(st, roomIdx, "white"), roomIdx, "pink"),
                 roomIdx, "bessou")

Tree_drawRoom(st, roomIdx) ==
    LET s1 == [st EXCEPT !.materialParams =
                             [setColorFromRoomNo(@, roomIdx) EXCEPT !.C0 = l_shadowColor]]
        s2 == fillMaterialParamsDataOnInst(s1, "Tree", roomIdx, "shadow", FALSE)
        s3 == [s2 EXCEPT !.materialParams =
                             [setColorFromRoomNo(@, roomIdx) EXCEPT !.C2 = TreeAlpha]]
    IN  fillMaterialParamsDataOnInst(s3, "Tree", roomIdx, "trunk", TRUE)

Grass_drawRoom(st, roomIdx) ==
    fillMaterialParamsDataOnInst(
        [st EXCEPT !.materialParams = setColorFromRoomNo(@, roomIdx)],
        "Grass", roomIdx, "grass", TRUE)

Bush_drawRoom(st, roomIdx) ==
    LET s1 == [st EXCEPT !.materialParams.C0 = l_shadowColor]
        s2 == fillMaterialParamsDataOnInst(s1, "Bush", roomIdx, "shadow", FALSE)
        s3 == fillMaterialParamsDataOnInst(s2, "Bush", roomIdx, "bush", TRUE)
    IN  [s3 EXCEPT !.materialParams =
                       setColorFromRoomNo([@ EXCEPT !.C2 = White], roomIdx)]

\* drawRoom of the packet: nothing for a room without instances.
drawRoom(kind, st, roomIdx) ==
    IF roomIdx \notin st.occupied[kind] THEN st
    ELSE IF kind = "Flower" THEN Flower_drawRoom(st, roomIdx)
    ELSE IF kind = "Tree" THEN Tree_drawRoom(st, roomIdx)
    ELSE IF kind = "Grass" THEN Grass_drawRoom(st, roomIdx)
    ELSE Bush_drawRoom(st, roomIdx)

RECURSIVE draw_from(_, _, _)
\* draw: drawRoom for every room index in order.
draw_from(kind, st, roomIdx) ==
    IF roomIdx >= RoomCount THEN st
    ELSE draw_from(kind, drawRoom(kind, st, roomIdx), roomIdx + 1)

\* d_s_play.draw draws the packets in this order every frame.
DrawOrder == <<"Flower", "Tree", "Grass", "Bush">>

(***************************************************************************)
(* ModelCache (rustlib.ts) over a small promise runtime.  A promise is     *)
(* pending, fulfilled or rejected and keeps its reactions in registration  *)
(* order; settling it queues one microtask per reaction, in that order,    *)
(* and a reaction added to a settled promise is queued at once.  The data  *)
(* a fetch delivers is identified by the number of the fetcher request.    *)
(***************************************************************************)
FilePaths == {<<"j3d/ww", "extra.crg1_arc">>, <<"Particle", "common.jpc">>}
ArcNames == {"Ep"}
ObjectPath(arcName) == <<"Object", arcName>>
StageNames == {"sea", "majroom"}
StageArcNames == {"Stage"}
StagePath(stageName, arcName) == <<stageName, arcName>>
ArchivePaths == {ObjectPath(a) : a \in ArcNames}
                    \cup {StagePath(st, a) : st \in StageNames, a \in StageArcNames}

cPhs_Complete == "Complete"
cPhs_Loading == "Loading"

Reaction(kind, key, call) == [kind |-> kind, key |-> key, call |-> call, ok |-> TRUE, value |-> 0]

NewPromise(w) ==
    [w EXCEPT !.promises = Append(@, [state |-> "pending", value |-> 0, reactions |-> <<>>])]

\* p.then(reaction) / await p.
Then(w, id, reaction) ==
    IF w.promises[id].state = "pending"
    THEN [w EXCEPT !.promises[id].reactions = Append(@, reaction)]
    ELSE [w EXCEPT !.jobs = Append(@, [reaction EXCEPT
                                         !.ok = (w.promises[id].state = "fulfilled"),
                                         !.value = w.promises[id].value])]

\* Order in which the reactions of a settled promise are queued.
ReactionOrder_reversed(rs) == [k \in 1..Len(rs) |-> rs[Len(rs) + 1 - k]]
ReactionOrder(rs) == rs

Settle(w, id, ok, value) ==
    LET rs == ReactionOrder(w.promises[id].reactions)
    IN  [w EXCEPT !.promises[id] = [state |-> IF ok THEN "fulfilled" ELSE "rejected",
                                    value |-> value, reactions |-> <<>>],
                  !.jobs = @ \o [k \in 1..Len(rs) |-> [rs[k] EXCEPT !.ok = ok, !.value = value]]]

\* dataFetcher.fetchData(path): a new request and the promise for its data
\* (the promise is the last one of the result).
fetchData(w, path) ==
    LET w1 == NewPromise(w)
    IN  [w1 EXCEPT !.fetches = Append(@, [path |-> path, promise |-> Len(w1.promises),
                                          open |-> TRUE])]

\* fetchFile: start the fetch and remember its promise under the path.
fetchFile(w, path) ==
    LET w1 == fetchData(w, path)
    IN  [w1 EXCEPT !.filePromiseCache[path] = Len(w1.promises)]

\* The test p !== undefined of fetchFileData.
HasFilePromise_never(w, path) == FALSE
HasFilePromise(w, path) == w.filePromiseCache[path] # 0

\* fetchFileData(path) as call number `call`: chain on the cached promise,
\* or fetch and chain the callback that fills fileDataCache.
fetchFileData(w, path, call) ==
    IF HasFilePromise(w, path)
    THEN Then(w, w.filePromiseCache[path], Reaction("getFileData", path, call))
    ELSE LET w1 == fetchFile(w, path)
         IN  Then(w1, w1.filePromiseCache[path], Reaction("setFileData", path, call))

\* requestArchiveDataInternal up to its await: the async function's own
\* promise, then the fetch whose result it awaits.
requestArchiveDataInternal(w, archivePath) ==
    LET w1 == NewPromise(w)
        own == Len(w1.promises)
        w2 == fetchData(w1, archivePath)
    IN  [w |-> Then(w2, Len(w2.promises), Reaction("parseArchive", archivePath, own)),
         promise |-> own]

fetchArchive(w, archivePath) ==
    IF w.archivePromiseCache[archivePath] # 0
    THEN [w |-> w, promise |-> w.archivePromiseCache[archivePath]]
    ELSE LET r == requestArchiveDataInternal(w, archivePath)
         IN  [w |-> [r.w EXCEPT !.archivePromiseCache[archivePath] = r.promise],
              promise |-> r.promise]

\* fetchObjectData up to its await.
fetchObjectData(w, arcName) ==
    LET r == fetchArchive(w, ObjectPath(arcName))
    IN  Then(r.w, r.promise, Reaction("mountObject", arcName, 0))

\* The test of requestObjectData that answers Complete.
IsArchiveReady_promised(w, archivePath) == w.archivePromiseCache[archivePath] # 0
IsArchiveReady(w, archivePath) == archivePath \in w.archiveCache

requestObjectData(w, arcName) ==
    LET archivePath == ObjectPath(arcName)
    IN  IF IsArchiveReady(w, archivePath)
        THEN [w |-> w, status |-> cPhs_Complete]
        ELSE [w |-> IF w.archivePromiseCache[archivePath] = 0
                    THEN fetchObjectData(w, arcName) ELSE w,
              status |-> cPhs_Loading]

\* dRes_control_c.destroyList and mountRes on the stage list, and the lookup
\* by archive name (the first entry of that name).  An entry keeps the
\* archive it was mounted from, named by the fetcher request that loaded it.
destroyList(resList) == <<>>
mountRes(resList, arcName, archive) == Append(resList, [name |-> arcName, archive |-> archive])
findResInfo(resList, arcName) ==
    LET hits == {k \in 1..Len(resList) : resList[k].name = arcName}
    IN  IF hits = {} THEN 0
        ELSE resList[CHOOSE k \in hits : \A h \in hits : k <= h].archive

setCurrentStage(w, stageName) ==
    [w EXCEPT !.currentStage = stageName, !.resStg = destroyList(@)]

\* fetchStageData up to its await: the path is built from the stage that is
\* current at the call.
fetchStageData(w, arcName) ==
    LET r == fetchArchive(w, StagePath(w.currentStage, arcName))
    IN  Then(r.w, r.promise, Reaction("mountStage", arcName, 0))

(***************************************************************************)
(* WindWakerRenderer (rustlib.ts): the settings a frame reads, the         *)
(* visibility it gives the actors of the draw queue, the toon texture, and *)
(* the passes of render.  A device operation is recorded with the pass it  *)
(* was made on and whether that pass was open at the time.                 *)
(***************************************************************************)
RoomNos == {0}
Layers == (0 - 1)..MaxLayer
LayerMasks == 0..(2 ^ (MaxLayer + 1) - 1)
PowerValues == {1, 15}
ProcessNames == {"d_a_bg", "d_a_grass", "d_kankyo"}

\* The processes a draw queue can hold: actors (fopAc_ac_c) of a loaded room
\* or of no room, and the environment process, which is not an actor.
QueueEntries ==
    {[processName |-> pn, fopAc |-> TRUE, roomNo |-> r, roomLayer |-> l, visible |-> TRUE] :
        pn \in {"d_a_bg", "d_a_grass"}, r \in RoomNos \cup {0 - 1}, l \in Layers}
    \cup {[processName |-> "d_kankyo", fopAc |-> FALSE, roomNo |-> 0 - 1, roomLayer |-> 0 - 1,
           visible |-> TRUE]}

fpcIsObject_all(n) == TRUE
fpcIsObject(n) == IF n = "d_a_bg" THEN FALSE ELSE TRUE

objectLayerVisible(layerMask, layer) ==
    IF layer < 0 THEN TRUE ELSE HasBit(layerMask, 2 ^ layer)

getRoomVisible(r, roomNo) == IF roomNo = 0 - 1 THEN TRUE ELSE r.rooms[roomNo]

\* The body of the draw-queue loop of prepareToRender for one process.
ActorVisible(r, ac) ==
    IF ~ac.fopAc THEN ac
    ELSE LET v == getRoomVisible(r, ac.roomNo) /\ objectLayerVisible(r.roomLayerMask, ac.roomLayer)
         IN  [ac EXCEPT !.visible = IF v /\ ~r.objectsVisible /\ fpcIsObject(ac.processName)
                                    THEN FALSE ELSE v]

\* Device operations.
Op(op, pass, arg, open) == [op |-> op, pass |-> pass, arg |-> arg, open |-> open]
PassNames == {"hostAccess", "toonHostAccess", "skybox", "main", "indirect"}
NoPasses == [pn \in PassNames |-> "none"]

createPass(r, pass, arg) ==
    [r EXCEPT !.pass[pass] = "open", !.ops = Append(@, Op("create", pass, arg, TRUE))]
endPass(r, pass) ==
    [r EXCEPT !.pass[pass] = "ended", !.ops = Append(@, Op("end", pass, "", r.pass[pass] = "open"))]
submitPass(r, pass) ==
    [r EXCEPT !.pass[pass] = "submitted",
              !.ops = Append(@, Op("submit", pass, "", r.pass[pass] = "open"))]
uploadTextureData(r, pass, arg) ==
    [r EXCEPT !.ops = Append(@, Op("upload", pass, arg, r.pass[pass] = "open"))]
executeList(r, pass, list) ==
    [r EXCEPT !.ops = Append(@, Op("draw", pass, list, r.pass[pass] = "open"))]
executeListSet(r, pass, listSet) ==
    executeList(executeList(r, pass, listSet[1]), pass, listSet[2])
peekZ(r) ==
    [r EXCEPT !.ops = @ \o <<Op("peekZ.submitFrame", "none", "", FALSE),
                             Op("peekZ.peekData", "none", "", FALSE)>>]

\* DynToonTex.prepareToRender: bake and upload when the power changed.
NeedsBake_always(toon) == TRUE
NeedsBake(toon) == toon.texPower # toon.desiredPower

DynToonTex_prepareToRender(r) ==
    IF NeedsBake(r.toon)
    THEN LET r1 == [r EXCEPT !.toon.texPower = r.toon.desiredPower]
             r2 == createPass(r1, "toonHostAccess", "")
             r3 == uploadTextureData(r2, "toonHostAccess", "DynToonTex")
         IN  submitPass(r3, "toonHostAccess")
    ELSE r

\* ZWWExtraTextures.prepareToRender.
ExtraTextures_prepareToRender(r) ==
    DynToonTex_prepareToRender([r EXCEPT !.toon.desiredPower = r.toonTexPower])

\* WindWakerRenderer.prepareToRender: actor visibility, extra textures, and
\* the upload of the frame's data on the host access pass.
prepareToRender(r) ==
    LET r1 == [r EXCEPT !.dwQueue = [k \in 1..Len(r.dwQueue) |-> ActorVisible(r, r.dwQueue[k])]]
        r2 == ExtraTextures_prepareToRender(r1)
    IN  uploadTextureData(r2, "hostAccess", "renderHelper")

\* WindWakerRenderer.render.
render(r) ==
    LET r0 == [r EXCEPT !.ops = <<>>, !.pass = NoPasses]
        r1 == submitPass(prepareToRender(createPass(r0, "hostAccess", "")), "hostAccess")
        r2 == createPass(r1, "skybox", "fullClear")
        r3 == submitPass(endPass(executeListSet(r2, "skybox", <<"sky0", "sky1">>), "skybox"), "skybox")
        r4 == createPass(r3, "main", "depthClear")
        r5 == executeListSet(executeList(r4, "main", "sea"), "main", <<"main0", "main1">>)
        r6 == executeList(executeList(r5, "main", "effectMain"), "main", "wetherEffect")
        r7 == peekZ(submitPass(endPass(r6, "main"), "main"))
        r8 == createPass(r7, "indirect", "noClear")
    IN  executeList(r8, "main", "effectIndirect")

(***************************************************************************)
(* d_a_kytag00 (WindWaker/d_a.ts), the weather trigger cylinder.  Lengths  *)
(* are small integers; target and the blends are in tenths, their product  *)
(* and blendPselGather in thousandths.  The tag stands at the origin.      *)
(***************************************************************************)
innerRadius == 2
outerRadius == 4
innerFadeY == 2
innerTopY == 4
TargetLevels == {0, 5, 10}
Probes == {[distXZ |-> d, y |-> y] : d \in {0, 3, 5}, y \in {0 - 3, 0 - 1, 1, 7}}

saturate(x, one) == IF x < 0 THEN 0 ELSE IF x > one THEN one ELSE x

\* cLib_addCalc(target, dest, ...): one step of the ramp toward dest, which
\* neither passes dest nor moves away from it.
cLib_addCalc(cur, dest) ==
    {t \in TargetLevels : (cur <= t /\ t <= dest) \/ (dest <= t /\ t <= cur)}

InVolume(probe) ==
    /\ probe.distXZ < outerRadius
    /\ probe.y > 0 - innerFadeY
    /\ probe.y <= innerTopY + innerFadeY

blendXZ(probe) ==
    LET v == ((outerRadius - probe.distXZ) * 10) \div (outerRadius - innerRadius)
    IN  IF v < 10 THEN v ELSE 10

blendY(probe) ==
    IF innerFadeY = 0 THEN 10
    ELSE IF probe.y > 0
         THEN 10 - saturate(((probe.y - (innerTopY + innerFadeY)) * 10) \div innerFadeY, 10)
         ELSE 10 - saturate(((0 - probe.y) * 10) \div innerFadeY, 10)

raincnt_set(env, target, nightStop) ==
    LET eighths == target \div 125   \* target is a multiple of 125 thousandths
        raw == (eighths * eighths * eighths * 125) \div 256   \* (t^3 * 250) | 0
        newRainCount == IF nightStop /\ raw < env.rainCount THEN env.rainCount ELSE raw
    IN  IF newRainCount > env.rainCountOrig THEN [env EXCEPT !.rainCount = newRainCount] ELSE env

raincnt_cut(env, nightStop) ==
    IF ~nightStop THEN [env EXCEPT !.rainCount = env.rainCountOrig] ELSE env

thunder_on(env) == IF env.thunderMode = 0 THEN [env EXCEPT !.thunderMode = 2] ELSE env
thunder_off(env) == IF env.thunderMode = 2 THEN [env EXCEPT !.thunderMode = 0] ELSE env

\* wether_tag_move, the branch taken inside the volume.
tag_inside(k, probe, nightStop) ==
    LET target == k.tag.target * blendXZ(probe) * blendY(probe)
        psel == k.env.envrIdxPrev = k.env.envrIdxCurr /\ k.tag.pselIdx < 4
        e1 == IF ~psel THEN k.env
              ELSE IF target > 500
                   THEN [k.env EXCEPT !.blendPselGather = target,
                                      !.pselIdxPrevGather = k.env.weatherPselIdx,
                                      !.pselIdxCurrGather = k.tag.pselIdx,
                                      !.colSetModeGather = 1]
                   ELSE [k.env EXCEPT !.blendPselGather = 1000 - target,
                                      !.pselIdxPrevGather = k.tag.pselIdx,
                                      !.pselIdxCurrGather = k.env.weatherPselIdx,
                                      !.colSetModeGather = 1]
        e2 == IF k.tag.effectMode = 1 THEN raincnt_set(e1, target, nightStop)
              ELSE IF k.tag.effectMode = 7 THEN thunder_on(e1)
              ELSE IF k.tag.effectMode \in {8, 9} THEN raincnt_set(thunder_on(e1), target, nightStop)
              ELSE e1
    IN  [k EXCEPT !.tag.pselSet = IF psel THEN TRUE ELSE @, !.tag.effectSet = TRUE, !.env = e2]

\* The test that guards the unwinding of the effects.
EffectWasSet_always(k) == TRUE
EffectWasSet(k) == k.tag.effectSet

\* wether_tag_move, the branch taken outside the volume.
tag_outside(k, nightStop) ==
    LET e1 == IF k.tag.pselSet
              THEN [k.env EXCEPT !.pselIdxPrevGather = k.env.weatherPselIdx,
                                 !.pselIdxCurrGather = k.env.weatherPselIdx,
                                 !.blendPselGather = 0,
                                 !.colSetModeGather = 1]
              ELSE k.env
        e2 == IF ~EffectWasSet(k) THEN e1
              ELSE IF k.tag.effectMode = 1 THEN raincnt_cut(e1, nightStop)
              ELSE IF k.tag.effectMode = 7 THEN thunder_off(e1)
              ELSE IF k.tag.effectMode \in {8, 9} THEN raincnt_cut(thunder_off(e1), nightStop)
              ELSE e1
    IN  [k EXCEPT !.tag.pselSet = FALSE, !.tag.effectSet = FALSE, !.env = e2]

wether_tag_move(k, probe, nightStop) ==
    IF InVolume(probe) THEN tag_inside(k, probe, nightStop) ELSE tag_outside(k, nightStop)

(***************************************************************************)
(* The resting state of each part, held while another part runs.           *)
(***************************************************************************)
NoRun == [pc |-> "none", cur |-> 0, frameCount |-> 0, hasWaited |-> FALSE,
          res |-> FALSE, entry |-> NewObject(0, FALSE, FALSE), budget |-> 0]

NoPacket == [kind |-> "none", rooms |-> [r \in Rooms |-> <<>>], anim |-> 0]

GrassIdle ==
    /\ packet = NoPacket
    /\ globals = [mStayNo |-> 0]
    /\ queries = <<>>

CacheIdle ==
    /\ mc = [filePromiseCache |-> [path \in FilePaths |-> 0],
             fileDataCache |-> [path \in FilePaths |-> 0],
             archivePromiseCache |-> [path \in ArchivePaths |-> 0],
             archiveCache |-> {}, resObj |-> {},
             currentStage |-> "none", resStg |-> <<>>,
             promises |-> <<>>, jobs |-> <<>>, fetches |-> <<>>]
    /\ obs = [results |-> <<>>,
              poll |-> [flip |-> 0, arc |-> "none", status |-> "none"],
              completed |-> {}, objFetches |-> 0, stageCalls |-> 0]

NoRenderer ==
    [rooms |-> [n \in RoomNos |-> TRUE], roomLayerMask |-> 1, objectsVisible |-> TRUE,
     dwQueue |-> <<>>, toonTexPower |-> 15, toon |-> [desiredPower |-> 0, texPower |-> 0],
     pass |-> NoPasses, ops |-> <<>>, fresh |-> FALSE, was |-> [desiredPower |-> 0, texPower |-> 0]]

NoKytag ==
    [tag |-> [pselIdx |-> 0, effectMode |-> 0, invert |-> FALSE, target |-> 0,
              effectSet |-> FALSE, pselSet |-> FALSE],
     env |-> [blendPselGather |-> 0, pselIdxPrevGather |-> 0, pselIdxCurrGather |-> 0,
              colSetModeGather |-> 0, weatherPselIdx |-> 0, envrIdxPrev |-> 0,
              envrIdxCurr |-> 0, thunderMode |-> 0, rainCount |-> 0, rainCountOrig |-> 0],
     tick |-> [n |-> 0, inside |-> FALSE, nightStop |-> FALSE, everInside |-> FALSE,
               left |-> FALSE, thunderBefore |-> 0, rainBefore |-> 0]]

(***************************************************************************)
(* The grass spawner d_a_grass: its tables, the decode of its parameter    *)
(* word and the instances its subload registers.  The animIdx of a new     *)
(* instance is random and plays no part here; it is left out.              *)
(***************************************************************************)
kSpawnPatterns ==
    <<[group |-> 0, count |-> 1],
      [group |-> 0, count |-> 7],
      [group |-> 1, count |-> 15],
      [group |-> 2, count |-> 3],
      [group |-> 3, count |-> 7],
      [group |-> 4, count |-> 11],
      [group |-> 5, count |-> 7],
      [group |-> 6, count |-> 5]>>

kSpawnOffsets ==
    << <<<<0, 0, 0>>, <<3, 0, -50>>, <<-2, 0, 50>>, <<50, 0, 27>>, <<52, 0, -25>>,
         <<-50, 0, 22>>, <<-50, 0, -29>>>>,
       <<<<-18, 0, 76>>, <<-15, 0, 26>>, <<133, 0, 0>>, <<80, 0, 23>>, <<86, 0, -83>>,
         <<33, 0, -56>>, <<83, 0, -27>>, <<-120, 0, -26>>, <<-18, 0, -65>>,
         <<-20, 0, -21>>, <<-73, 0, 1>>, <<-67, 0, -102>>, <<-21, 0, 126>>,
         <<-120, 0, -78>>, <<-70, 0, -49>>, <<32, 0, 103>>, <<34, 0, 51>>,
         <<-72, 0, 98>>, <<-68, 0, 47>>, <<33, 0, -5>>, <<135, 0, -53>>>>,
       <<<<-75, 0, -50>>, <<75, 0, -25>>, <<14, 0, 106>>>>,
       <<<<-24, 0, -28>>, <<27, 0, -28>>, <<-21, 0, 33>>, <<-18, 0, -34>>,
         <<44, 0, -4>>, <<41, 0, 10>>, <<24, 0, 39>>>>,
       <<<<-55, 0, -22>>, <<-28, 0, -50>>, <<-77, 0, 11>>, <<55, 0, -44>>,
         <<83, 0, -71>>, <<11, 0, -48>>, <<97, 0, -34>>, <<-74, 0, -57>>,
         <<31, 0, 58>>, <<59, 0, 30>>, <<13, 0, 23>>, <<-12, 0, 54>>, <<55, 0, 97>>,
         <<10, 0, 92>>, <<33, 0, -10>>, <<-99, 0, -27>>, <<40, 0, -87>>>>,
       <<<<0, 0, 3>>, <<-26, 0, -29>>, <<7, 0, -25>>, <<31, 0, -5>>, <<-7, 0, 40>>,
         <<-35, 0, 15>>, <<23, 0, 32>>>>,
       <<<<-40, 0, 0>>, <<0, 0, 0>>, <<80, 0, 0>>, <<-80, 0, 0>>, <<40, 0, 0>>>> >>

FoliageType_Grass == 0
FoliageType_Tree == 1
FoliageType_WhiteFlower == 2
FoliageType_PinkFlower == 3

\* Parameter words: every pattern id 0..15 (the table has 0..7), every
\* foliage type, two item indices.
SpawnParameters == {p + 16 * ty + 64 * it : p \in 0..15, ty \in 0..3, it \in 0..1}

\* Actor yaws (s16): none, and half a turn either way.  rot[1] / 0x7FFF * PI
\* is then 0, PI or -PI, whose cosine is 1 or -1 and whose sine vanishes
\* when the rotated offset is stored in a Float32Array.
Yaws == {0, 32767, 0 - 32767}
SpawnPositions == {<<0, 0, 0>>, <<100, 20, -300>>}

spawnPatternId(parameters) == parameters % 16
foliageType(parameters) == (parameters \div 16) % 4
itemIdx(parameters) == (parameters \div 64) % 64

cosYaw(yaw) == IF yaw = 0 THEN 1 ELSE 0 - 1
sinYaw(yaw) == 0

\* vec3.transformMat4(out, a, mat4.fromYRotation(yaw)).
transformYRotation(a, yaw) ==
    <<cosYaw(yaw) * a[1] + sinYaw(yaw) * a[3], a[2],
      cosYaw(yaw) * a[3] - sinYaw(yaw) * a[1]>>

vec3_add(a, b) == <<a[1] + b[1], a[2] + b[2], a[3] + b[3]>>

\* The offset subload adds to the actor position for one instance.
SpawnOffset_rotated(type, offset, yaw) == transformYRotation(offset, yaw)
SpawnOffset(type, offset, yaw) ==
    IF type = FoliageType_Tree THEN transformYRotation(offset, yaw) ELSE offset

\* GrassPacket.newData, TreePacket.newData, FlowerPacket.newData: the
\* record pushed on rooms[roomIdx].  The Bessou flower of room 0x21 of
\* stage sea lies outside Rooms.
GrassPacket_newData(rooms, pos, roomIdx, item) ==
    [rooms EXCEPT ![roomIdx] = Append(@, [flags |-> needsGroundCheck, itemIdx |-> item,
                                           pos |-> pos])]
TreePacket_newData(rooms, pos, initialStatus, roomIdx) ==
    [rooms EXCEPT ![roomIdx] = Append(@, [flags |-> needsGroundCheck,
                                           status |-> initialStatus, pos |-> pos])]
FlowerPacket_newData(rooms, pos, isPink, roomIdx, item) ==
    [rooms EXCEPT ![roomIdx] = Append(@, [flags |-> needsGroundCheck,
                                           type |-> IF isPink THEN "PINK" ELSE "WHITE",
                                           itemIdx |-> item, pos |-> pos])]

\* The loop of subload from instance j on, for the decoded type.
RECURSIVE SpawnLoop(_, _, _, _, _)
SpawnLoop(s, type, offsets, count, j) ==
    IF j > count THEN s
    ELSE LET pos == vec3_add(SpawnOffset(type, offsets[j], s.rot), s.pos)
             next ==
                 IF type = FoliageType_Grass
                 THEN [s EXCEPT !.grassPacket =
                          GrassPacket_newData(@, pos, s.roomNo, itemIdx(s.parameters))]
                 ELSE IF type = FoliageType_Tree
                 THEN [s EXCEPT !.treePacket = TreePacket_newData(@, pos, 0, s.roomNo)]
                 ELSE [s EXCEPT !.flowerPacket =
                          FlowerPacket_newData(@, pos, type = FoliageType_PinkFlower,
                                               s.roomNo, itemIdx(s.parameters))]
         IN  SpawnLoop(next, type, offsets, count, j + 1)

\* d_a_grass.subload: a pattern id past the table reads an undefined
\* pattern and throws before anything is registered.
subload(s) ==
    IF spawnPatternId(s.parameters) >= Len(kSpawnPatterns)
    THEN [s EXCEPT !.threw = TRUE]
    ELSE LET pattern == kSpawnPatterns[spawnPatternId(s.parameters) + 1]
             offsets == kSpawnOffsets[pattern.group + 1]
         IN  [SpawnLoop(s, foliageType(s.parameters), offsets, pattern.count, 1)
                 EXCEPT !.loaded = TRUE]

NoSpawn ==
    [parameters |-> 0, pos |-> <<0, 0, 0>>, rot |-> 0, roomNo |-> 0,
     loaded |-> FALSE, threw |-> FALSE,
     grassPacket |-> [r \in Rooms |-> <<>>],
     treePacket |-> [r \in Rooms |-> <<>>],
     flowerPacket |-> [r \in Rooms |-> <<>>]]

(***************************************************************************)
(* FVB list-parameter curves.  Times and values are exact rationals        *)
(* <<numerator, denominator>> with a positive denominator, in lowest       *)
(* terms; the rounding of the program's floating point is not modelled.    *)
(***************************************************************************)
RECURSIVE Gcd(_, _)
Gcd(a, b) == IF b = 0 THEN a ELSE Gcd(b, a % b)
AbsInt(a) == IF a < 0 THEN 0 - a ELSE a

Rat(n, d) ==
    LET sn == IF d < 0 THEN 0 - n ELSE n
        sd == AbsInt(d)
        g == Gcd(AbsInt(sn), sd)
    IN  <<sn \div g, sd \div g>>
RInt(n) == <<n, 1>>
RAdd(a, b) == Rat(a[1] * b[2] + b[1] * a[2], a[2] * b[2])
RSub(a, b) == Rat(a[1] * b[2] - b[1] * a[2], a[2] * b[2])
RMul(a, b) == Rat(a[1] * b[1], a[2] * b[2])
RDiv(a, b) == Rat(a[1] * b[2], a[2] * b[1])
RGeq(a, b) == a[1] * b[2] >= b[1] * a[2]

EInterpolateType_None == 0
EInterpolateType_Linear == 1
EInterpolateType_Plateau == 2
EInterpolateType_BSpline == 3
InterpolateTypes == 0..3

\* Key lists as setData stores them: time, value, time, value, ... with
\* strictly increasing integer times.
KeyValues == {0, 1, 5}
KeyTimes(n) == {ts \in [1..n -> 0..MaxKeyTime] : \A i \in 1..(n - 1) : ts[i] < ts[i + 1]}
KeyLists ==
    UNION {{[k \in 1..(2 * n) |-> IF k % 2 = 1 THEN ts[(k + 1) \div 2] ELSE vs[k \div 2]] :
               ts \in KeyTimes(n), vs \in [1..n -> KeyValues]} : n \in 1..MaxKeys}

\* Arguments of getValue: every half from before the first possible key to
\* after the last.
SampleTimes == {Rat(h, 2) : h \in (0 - 2)..(2 * MaxKeyTime + 2)}

\* keys[i] of the program's zero-based Float32Array.
Key(keys, i) == RInt(keys[i + 1])

\* Attribute.Interpolate.Linear.
Interpolate_Linear(t, t0, v0, t1, v1) ==
    RAdd(v0, RDiv(RMul(RSub(v1, v0), RSub(t, t0)), RSub(t1, t0)))

\* Attribute.Interpolate.BSpline_Nonuniform.
BSpline_Nonuniform(t, controlPoints, knotVector) ==
    LET knot0 == knotVector[1]
        knot1 == knotVector[2]
        knot2 == knotVector[3]
        knot3 == knotVector[4]
        knot4 == knotVector[5]
        knot5 == knotVector[6]
        diff0 == RSub(t, knot0)
        diff1 == RSub(t, knot1)
        diff2 == RSub(t, knot2)
        diff3 == RSub(knot3, t)
        diff4 == RSub(knot4, t)
        diff5 == RSub(knot5, t)
        inverseDeltaKnot32 == RDiv(RInt(1), RSub(knot3, knot2))
        blendFactor3 == RDiv(RMul(diff3, inverseDeltaKnot32), RSub(knot3, knot1))
        blendFactor2 == RDiv(RMul(diff2, inverseDeltaKnot32), RSub(knot4, knot2))
        blendFactor1 == RDiv(RMul(diff3, blendFactor3), RSub(knot3, knot0))
        blendFactor4 == RDiv(RAdd(RMul(diff1, blendFactor3), RMul(diff4, blendFactor2)),
                             RSub(knot4, knot1))
        blendFactor5 == RDiv(RMul(diff2, blendFactor2), RSub(knot5, knot2))
        term1 == RMul(diff3, blendFactor1)
        term2 == RAdd(RMul(diff0, blendFactor1), RMul(diff4, blendFactor4))
        term3 == RAdd(RMul(diff1, blendFactor4), RMul(diff5, blendFactor5))
        term4 == RMul(diff2, blendFactor5)
    IN  RAdd(RAdd(RMul(term1, controlPoints[1]), RMul(term2, controlPoints[2])),
             RAdd(RMul(term3, controlPoints[3]), RMul(term4, controlPoints[4])))

Twice(a, b) == RSub(RMul(RInt(2), a), b)

\* interpolateBSpline: control points 1 and 2 are the bracketing values,
\* knots 2 and 3 the bracketing times; the others come from the
\* neighbouring keys, or are mirrored where the list ends.
interpolateBSpline(f, t) ==
    LET c == f.curKeyIdx * 2
        keysBefore == f.curKeyIdx
        keysAfter == f.keyCount - f.curKeyIdx
        cp1 == Key(f.keys, c - 1)
        cp2 == Key(f.keys, c + 1)
        kv2 == Key(f.keys, c - 2)
        kv3 == Key(f.keys, c)
        cp0 == IF keysBefore = 1 THEN Twice(cp1, cp2) ELSE Key(f.keys, c - 3)
        cp3 == IF keysBefore # 1 /\ keysAfter = 1 THEN Twice(cp2, cp1)
               ELSE Key(f.keys, c + 3)
        kv4 == IF keysBefore # 1 /\ keysAfter = 1 THEN Twice(kv3, kv2)
               ELSE Key(f.keys, c + 2)
        kv1 == IF keysBefore = 1 THEN Twice(kv2, kv3) ELSE Key(f.keys, c - 4)
        kv0 == IF keysBefore = 1 THEN Twice(kv2, kv4)
               ELSE IF keysBefore = 2 THEN Twice(kv1, kv2)
               ELSE Key(f.keys, c - 6)
        kv5 == IF keysBefore = 1
               THEN (IF keysAfter \in {1, 2} THEN Twice(kv4, kv3) ELSE Key(f.keys, c + 4))
               ELSE IF keysAfter = 1 THEN Twice(kv3, kv1)
               ELSE IF keysAfter = 2 THEN Twice(kv4, kv3)
               ELSE Key(f.keys, c + 4)
    IN  BSpline_Nonuniform(t, <<cp0, cp1, cp2, cp3>>, <<kv0, kv1, kv2, kv3, kv4, kv5>>)

interpolateLinear(f, t) ==
    LET c == f.curKeyIdx * 2
    IN  Interpolate_Linear(t, Key(f.keys, c - 2), Key(f.keys, c - 1),
                           Key(f.keys, c), Key(f.keys, c + 1))

\* FunctionValue_ListParameter.prepare: the switch on the interpolation
\* type has no break before its BSpline case, so every type runs on into
\* that case and its choice by key count is the one that stays.
prepare_interpFunc(interp, keyCount) ==
    IF interp \in {EInterpolateType_None, EInterpolateType_Linear,
                   EInterpolateType_Plateau, EInterpolateType_BSpline}
    THEN (IF keyCount > 2 THEN "interpolateBSpline" ELSE "interpolateLinear")
    ELSE "undefined"

\* keys.findIndex((k, i) => (i % 2) == 0 && k >= t): zero-based, -1 if none.
findIndex(keys, t) ==
    LET hits == {i \in 0..(Len(keys) - 1) : i % 2 = 0 /\ RGeq(Key(keys, i), t)}
    IN  IF hits = {} THEN 0 - 1 ELSE CHOOSE i \in hits : \A k \in hits : i <= k

\* FunctionValue_ListParameter.getValue; Range.getParameter hands the time
\* through.
getValue(f, timeSec) ==
    LET t == timeSec
        found == findIndex(f.keys, t)
    IN  IF found = 0
        THEN [f EXCEPT !.curKeyIdx = 0, !.t = timeSec, !.called = TRUE,
                       !.value = Key(f.keys, 1)]
        ELSE IF found < 0
        THEN [f EXCEPT !.curKeyIdx = f.keyCount - 1, !.t = timeSec, !.called = TRUE,
                       !.value = Key(f.keys, (f.keyCount - 1) * 2 + 1)]
        ELSE LET g == [f EXCEPT !.curKeyIdx = found \div 2, !.t = timeSec, !.called = TRUE]
             IN  [g EXCEPT !.value = IF g.interpFunc = "interpolateBSpline"
                                     THEN interpolateBSpline(g, t)
                                     ELSE interpolateLinear(g, t)]

NoFunctionValue ==
    [keys |-> <<>>, keyCount |-> 0, curKeyIdx |-> 0, interp |-> EInterpolateType_None,
     interpFunc |-> "undefined", t |-> <<0, 1>>, value |-> <<0, 1>>, called |-> FALSE]

(***************************************************************************)
(* The actor adaptor's animation frame.  Frames are integers here.         *)
(***************************************************************************)
EExtrapolationType_Raw == 0
EExtrapolationType_Repeat == 1
EExtrapolationType_Turn == 2
EExtrapolationType_Clamp == 3

\* animMode words: every outside type, without and with the reverse byte.
AnimModes == {ty + 256 * rv : ty \in 0..3, rv \in 0..1}
AnimFrames == (0 - MaxAnimFrame - 3)..(MaxAnimFrame + 3)

\* The % of the program: the remainder takes the sign of the dividend.
jsRem(f, m) == IF f >= 0 THEN f % m ELSE 0 - ((0 - f) % m)

clamp(v, lo, hi) == IF v < lo THEN lo ELSE IF v > hi THEN hi ELSE v

Repeat_unraised(f, m) == jsRem(f, m)
Repeat(f, m) == LET r == jsRem(f, m) IN IF r < 0 THEN r + m ELSE r

Turn(f, m) ==
    LET r == jsRem(f, 2 * m)
        g == IF r < 0 THEN r + m ELSE r
    IN  IF g > m THEN 2 * m - g ELSE g

\* TFunctionValue.toFunction_outside(type), applied to (frame, maxFrame).
toFunction_outside(type, f, m) ==
    IF type = EExtrapolationType_Raw THEN f
    ELSE IF type = EExtrapolationType_Repeat THEN Repeat(f, m)
    ELSE IF type = EExtrapolationType_Turn THEN Turn(f, m)
    ELSE clamp(f, 0, m)

computeAnimFrame(animMode, maxFrame, frame) ==
    LET outsideType == animMode % 256
        reverse == animMode \div 256
        frame1 == IF reverse # 0 THEN maxFrame - frame ELSE frame
    IN  IF maxFrame > 0 THEN toFunction_outside(outsideType, frame1, maxFrame) ELSE frame1

NoAnim == [animMode |-> 0, maxFrame |-> 0, frame |-> 0, out |-> 0, done |-> FALSE]

(***************************************************************************)
(* TVariableValue, TAdaptor and the actor adaptor.  A track value is an    *)
(* integer; Undefined stands for a field that was never assigned.  The     *)
(* control has no transform origin, so isTransformEnabled() is false.      *)
(***************************************************************************)
EDataOp_None == 0
EDataOp_Void == 1
EDataOp_Immediate == 2
EDataOp_Time == 3
EDataOp_FuncValName == 16
EDataOp_FuncValIdx == 18
EDataOp_ObjectName == 24
EDataOp_ObjectIdx == 25

EActorTrack_AnimFrame == 0
EActorTrack_AnimTransition == 1
EActorTrack_TexAnimFrame == 2
EActorTrack_PosX == 3
EActorTrack_RotX == 6
EActorTrack_ScaleX == 9
ActorTrackCount == 14
ActorTracks == 0..(ActorTrackCount - 1)

\* cmdType of the property-update paragraphs the model issues.
CmdType_PosX == 9
CmdType_POS == 12
CmdType_AnimFrame == 59
CmdType_AnimationMode == 67
CmdType_AnimTransition == 75

Undefined == 0 - 1

\* new TVariableValue()
NewVariableValue ==
    [mValue |-> Undefined, mAge |-> Undefined, mUpdateFunc |-> "undefined",
     mUpdateParam |-> Undefined, mOutputFunc |-> "undefined"]

setValue_none(vv) == [vv EXCEPT !.mUpdateFunc = "undefined"]

setValue_immediate(vv, v) ==
    [vv EXCEPT !.mUpdateFunc = "update_immediate", !.mAge = 0, !.mUpdateParam = v]

setOutput(vv, outputFunc) == [vv EXCEPT !.mOutputFunc = outputFunc]

\* TVariableValue.forward: an age that was never set stays not-a-number.
VariableValue_forward(vv, frameCount) ==
    [vv EXCEPT !.mAge = IF @ = Undefined THEN Undefined ELSE @ + frameCount]

\* TVariableValue.update without the output call: update_immediate stores
\* the parameter and removes itself.
VariableValue_update(vv) ==
    IF vv.mUpdateFunc = "update_immediate"
    THEN [vv EXCEPT !.mValue = vv.mUpdateParam, !.mUpdateFunc = "undefined"]
    ELSE vv

\* readData: the data word for the operators that carry one, an assertion
\* failure for every other operator.
readData(dataOp, word) ==
    IF dataOp \in {EDataOp_Immediate, EDataOp_Time, EDataOp_FuncValIdx, EDataOp_ObjectIdx,
                   EDataOp_FuncValName, EDataOp_ObjectName}
    THEN [ok |-> TRUE, data |-> word]
    ELSE [ok |-> FALSE, data |-> word]

\* TAdaptor.adaptor_setVariableValue on the track keyIdx.
adaptor_setVariableValue(mVariableValues, keyIdx, dataOp, data) ==
    IF dataOp = EDataOp_Void
    THEN [mVariableValues EXCEPT ![keyIdx] = setValue_none(@)]
    ELSE IF dataOp = EDataOp_Immediate
    THEN [mVariableValues EXCEPT ![keyIdx] = setValue_immediate(@, data.asFloat)]
    ELSE mVariableValues

adaptor_setVariableValue_Vec(mVariableValues, startKeyIdx, data) ==
    [k \in ActorTracks |->
        IF k \in startKeyIdx..(startKeyIdx + 2)
        THEN setValue_immediate(mVariableValues[k], data[k - startKeyIdx + 1])
        ELSE mVariableValues[k]]

adaptor_getVariableValue_Vec(mVariableValues, startKeyIdx) ==
    <<mVariableValues[startKeyIdx].mValue, mVariableValues[startKeyIdx + 1].mValue,
      mVariableValues[startKeyIdx + 2].mValue>>

\* new TActorAdaptor followed by adaptor_do_prepare.
adaptor_do_prepare ==
    [k \in ActorTracks |->
        IF k = EActorTrack_AnimTransition THEN setOutput(NewVariableValue, "JSGSetAnimationTransition")
        ELSE IF k = EActorTrack_AnimFrame THEN setOutput(NewVariableValue, "JSGSetAnimationFrame")
        ELSE IF k = EActorTrack_TexAnimFrame
        THEN setOutput(NewVariableValue, "JSGSetTextureAnimationFrame")
        ELSE NewVariableValue]

\* TActorAdaptor.adaptor_do_begin: the tracks are loaded from the object.
adaptor_do_begin(a) ==
    LET v1 == adaptor_setVariableValue_Vec(a.mVariableValues, EActorTrack_PosX, a.mObject.pos)
        v2 == adaptor_setVariableValue_Vec(v1, EActorTrack_RotX, a.mObject.rot)
        v3 == adaptor_setVariableValue_Vec(v2, EActorTrack_ScaleX, a.mObject.scale)
        v4 == [v3 EXCEPT ![EActorTrack_AnimTransition] =
                             setValue_immediate(@, a.mObject.animTransition)]
        v5 == [v4 EXCEPT ![EActorTrack_AnimFrame] =
                             setValue_immediate(@, a.mObject.animFrame)]
        v6 == [v5 EXCEPT ![EActorTrack_AnimFrame] =
                             setValue_immediate(@, a.mObject.texAnimFrame)]
    IN  [a EXCEPT !.mVariableValues = v6, !.mObject.flag = 1]

\* The tracks whose update of this call hands its value to the output.
Pushing(mVariableValues) ==
    {k \in ActorTracks : /\ mVariableValues[k].mUpdateFunc # "undefined"
                         /\ mVariableValues[k].mOutputFunc # "undefined"}

\* adaptor_updateVariableValue, then adaptor_do_update.
adaptor_update(a, frameCount) ==
    LET push == Pushing(a.mVariableValues)
        vals == [k \in ActorTracks |->
                    VariableValue_update(VariableValue_forward(a.mVariableValues[k],
                                                               frameCount))]
        o1 == IF EActorTrack_AnimFrame \in push
              THEN [a.mObject EXCEPT !.animFrame =
                       computeAnimFrame(a.animMode, a.mObject.animFrameMax,
                                        vals[EActorTrack_AnimFrame].mValue)]
              ELSE a.mObject
        o2 == IF EActorTrack_AnimTransition \in push
              THEN [o1 EXCEPT !.animTransition = vals[EActorTrack_AnimTransition].mValue]
              ELSE o1
        o3 == IF EActorTrack_TexAnimFrame \in push
              THEN [o2 EXCEPT !.texAnimFrame =
                       computeAnimFrame(a.animTexMode, a.mObject.texAnimFrameMax,
                                        vals[EActorTrack_TexAnimFrame].mValue)]
              ELSE o2
    IN  [a EXCEPT !.mVariableValues = vals,
                  !.mObject = [o3 EXCEPT
                                  !.pos = adaptor_getVariableValue_Vec(vals, EActorTrack_PosX),
                                  !.rot = adaptor_getVariableValue_Vec(vals, EActorTrack_RotX),
                                  !.scale = adaptor_getVariableValue_Vec(vals, EActorTrack_ScaleX)],
                  !.pushed = push]

\* The first track and the track count a cmdType addresses; count 0 for a
\* cmdType that is not a track update.
ParagraphKeys(cmdType) ==
    IF cmdType = CmdType_PosX THEN [keyIdx |-> EActorTrack_PosX, keyCount |-> 1]
    ELSE IF cmdType = CmdType_POS THEN [keyIdx |-> EActorTrack_PosX, keyCount |-> 3]
    ELSE IF cmdType = CmdType_AnimFrame THEN [keyIdx |-> EActorTrack_AnimFrame, keyCount |-> 1]
    ELSE IF cmdType = CmdType_AnimTransition
    THEN [keyIdx |-> EActorTrack_AnimTransition, keyCount |-> 1]
    ELSE [keyIdx |-> 0, keyCount |-> 0]

RECURSIVE SetKeys(_, _, _, _, _)
\* The closing loop of do_paragraph: one word per key.
SetKeys(mVariableValues, keyIdx, i, keyCount, op_words) ==
    IF i >= keyCount THEN mVariableValues
    ELSE SetKeys(adaptor_setVariableValue(mVariableValues, keyIdx + i, op_words.dataOp,
                                          op_words.words[i + 1]),
                 keyIdx, i + 1, keyCount, op_words)

\* TActorObject.do_paragraph(file, dataSize, dataOffset, param); words are
\* the data words at dataOffset.
do_paragraph(a, param, words) ==
    LET dataOp == param % 32
        cmdType == param \div 32
        data == readData(dataOp, words[1])
        keys == ParagraphKeys(cmdType)
    IN  IF ~data.ok THEN [a EXCEPT !.threw = TRUE]
        ELSE IF cmdType = CmdType_AnimationMode
        THEN IF dataOp # EDataOp_Immediate THEN [a EXCEPT !.threw = TRUE]
             ELSE [a EXCEPT !.animMode = data.data.asInt]
        ELSE [a EXCEPT !.mVariableValues =
                           SetKeys(@, keys.keyIdx, 0, keys.keyCount,
                                   [dataOp |-> dataOp, words |-> words])]

NoSettle == [spawning |-> FALSE, calls |-> 0, F |-> 0, checks |-> <<>>]

NoDrawn == [materialParams |-> <<>>, occupied |-> <<>>, next |-> 0, batches |-> <<>>]

NoActor == [phase |-> "none"]

LateIdle ==
    /\ settle = NoSettle
    /\ drawn = NoDrawn
    /\ actor = NoActor

CalcIdle ==
    /\ spawn = NoSpawn
    /\ fv = NoFunctionValue
    /\ animCall = NoAnim
    /\ LateIdle

SceneIdle ==
    /\ rdr = NoRenderer
    /\ kytag = NoKytag
    /\ CalcIdle

NoControl ==
    [mSuspendFrames |-> 0, mStatus |-> EStatus_Still, mObjects |-> 0, pc |-> "idle",
     frameCount |-> 0, shouldContinue |-> FALSE, andStatus |-> 255,
     orStatus |-> 0, ret |-> FALSE, threw |-> "no", fwd |-> <<>>]

StbIdle ==
    /\ mData = [i \in ObjIds |-> <<>>]
    /\ obj = [i \in ObjIds |-> NewObject(0, FALSE, FALSE)]
    /\ ctl = NoControl
    /\ run = NoRun
    /\ calls = <<>>
    /\ hist = [i \in ObjIds |-> [begin |-> 0, end |-> 0, host |-> FALSE]]

(***************************************************************************)
(* The sequencer as a state machine.                                       *)
(***************************************************************************)
\* The state after TParse.parse: the control object is reset from the
\* control block when the script has one; every other block became a bound
\* object through createObject.
ScriptInit(n, progs) ==
    /\ \E c \in CtlPrograms, ps \in [1..n -> progs], fl \in [1..n -> {0, FlagInactive}] :
          /\ mData = [i \in ObjIds |-> IF i = CtlObj THEN c ELSE IF i <= n THEN ps[i] ELSE <<>>]
          /\ obj = [i \in ObjIds |->
                      IF i = CtlObj THEN NewObject(0, FALSE, c # <<>>)
                      ELSE IF i <= n THEN NewObject(fl[i], TRUE, TRUE)
                      ELSE NewObject(0, FALSE, FALSE)]
    /\ ctl = [NoControl EXCEPT !.mObjects = n]
    /\ run = NoRun
    /\ calls = <<>>
    /\ hist = [i \in ObjIds |-> [begin |-> 0, end |-> 0, host |-> FALSE]]
    /\ GrassIdle
    /\ CacheIdle
    /\ SceneIdle

\* A script with one bound object and any program.
StbInit == ScriptInit(1, Programs)

\* A script with two bound objects and short programs.
ControlInit == ScriptInit(2, ShortPrograms)

\* Entry of STBObject.forward(frameCount) on object i.
StartCall(i, frameCount) ==
    [pc |-> "outer", cur |-> i, frameCount |-> frameCount, hasWaited |-> FALSE,
     res |-> FALSE, entry |-> obj[i], budget |-> frameCount]

CountEv(log, e) == Cardinality({k \in 1..Len(log) : log[k].ev = e})

Record(i, events) ==
    /\ calls' = calls \o events
    /\ hist' = [hist EXCEPT ![i].begin = @ + CountEv(events, "begin"),
                            ![i].end = @ + CountEv(events, "end")]

\* A throw (TypeError or failed assert) unwinds out of TControl.forward.
Unwind(kind) ==
    /\ run' = [run EXCEPT !.pc = "none"]
    /\ ctl' = [ctl EXCEPT !.pc = "idle", !.threw = kind]

\* TControl.forward(frameCount), up to the call of mControlObject.forward.
TControl_forward(frameCount) ==
    /\ ctl.pc = "idle"
    /\ ctl' = [ctl EXCEPT !.mSuspendFrames = obj[CtlObj].mSuspendFrames,
                          !.pc = "run", !.frameCount = frameCount,
                          !.andStatus = 255, !.orStatus = 0,
                          !.shouldContinue = FALSE, !.threw = "no", !.fwd = <<>>]
    /\ run' = StartCall(CtlObj, frameCount)
    /\ calls' = <<>>
    /\ UNCHANGED <<obj, mData, hist, grassVars, cacheVars, sceneVars>>

\* STBObject.forward: one pass of the outer loop.
STB_forward_outer ==
    /\ run.pc = "outer"
    /\ LET i == run.cur
           r == forward_outer(obj[i], ctl.mSuspendFrames > 0, run.frameCount)
       IN  /\ obj' = [obj EXCEPT ![i] = r.obj]
           /\ Record(i, r.events)
           /\ IF r.out = "assert" THEN Unwind("assert")
              ELSE /\ run' = [run EXCEPT !.pc = IF r.out = "inner" THEN "inner" ELSE "ret",
                                         !.res = (r.out = "true")]
                   /\ UNCHANGED ctl
    /\ UNCHANGED <<mData, grassVars, cacheVars, sceneVars>>

\* STBObject.forward: one iteration of the inner loop.
STB_forward_inner ==
    /\ run.pc = "inner"
    /\ LET i == run.cur
           r == forward_inner(obj[i], mData[i], run.frameCount, run.hasWaited)
       IN  /\ obj' = [obj EXCEPT ![i] = r.obj]
           /\ Record(i, r.events)
           /\ IF r.out \in {"assert", "throw"} THEN Unwind(r.out)
              ELSE /\ run' = [run EXCEPT
                                !.pc = CASE r.out = "continue" -> "inner"
                                         [] r.out = "break" -> "outer"
                                         [] OTHER -> "ret",
                                !.frameCount = r.frameCount,
                                !.hasWaited = r.hasWaited,
                                !.res = (r.out = "true")]
                   /\ UNCHANGED ctl
    /\ UNCHANGED <<mData, grassVars, cacheVars, sceneVars>>

\* shouldContinue ||= res.
ShouldContinue_last(shouldContinue, res) == res
ShouldContinue(shouldContinue, res) == shouldContinue \/ res

\* TControl.forward after an object's forward returned: fold the result,
\* then call the next bound object, or store the status word and return.
TControl_forward_loop ==
    /\ run.pc = "ret"
    /\ LET i == run.cur
           st == obj[i].mStatus
           c0 == [ctl EXCEPT !.fwd = Append(@, [id |-> i, res |-> run.res])]
           c1 == IF i = CtlObj
                 THEN [c0 EXCEPT !.shouldContinue = run.res]
                 ELSE [c0 EXCEPT !.shouldContinue = ShouldContinue(@, run.res),
                                 !.andStatus = BitAnd(@, st),
                                 !.orStatus = BitOr(@, st)]
       IN  IF i + 1 <= ctl.mObjects
           THEN /\ ctl' = c1
                /\ run' = StartCall(i + 1, ctl.frameCount)
                /\ calls' = <<>>
           ELSE /\ ctl' = [c1 EXCEPT !.mStatus = c1.andStatus + 65536 * c1.orStatus,
                                     !.ret = c1.shouldContinue, !.pc = "idle"]
                /\ run' = [run EXCEPT !.pc = "none"]
                /\ calls' = calls
    /\ UNCHANGED <<obj, mData, hist, grassVars, cacheVars, sceneVars>>

\* TControl.setSuspend (i = CtlObj) or STBObject.setSuspend, between ticks.
Host_setSuspend(i, frameCount) ==
    /\ ctl.pc = "idle"
    /\ i <= ctl.mObjects
    /\ obj' = [obj EXCEPT ![i].mSuspendFrames = frameCount]
    /\ hist' = [hist EXCEPT ![i].host = TRUE]
    /\ UNCHANGED <<mData, ctl, run, calls, grassVars, cacheVars, sceneVars>>

StbNext ==
    \/ \E n \in 0..MaxFrames : TControl_forward(n)
    \/ STB_forward_outer
    \/ STB_forward_inner
    \/ TControl_forward_loop
    \/ \E i \in ObjIds, n \in 0..MaxHostSuspend : Host_setSuspend(i, n)

SpecStb == StbInit /\ [][StbNext]_vars

SpecControl == ControlInit /\ [][StbNext]_vars

\* A script with two bound objects whose host ticks it with one frame or
\* more, again and again, and never sets a suspend count.
FinishInit == ScriptInit(2, FinishPrograms)

FinishNext ==
    \/ \E n \in 1..MaxFrames : TControl_forward(n)
    \/ STB_forward_outer
    \/ STB_forward_inner
    \/ TControl_forward_loop

SpecFinish == FinishInit /\ [][FinishNext]_vars /\ WF_vars(FinishNext)

(***************************************************************************)
(* The foliage packet as a state machine.                                  *)
(***************************************************************************)
\* A scene with one packet of some kind, no instance spawned yet.
GrassInit ==
    /\ StbIdle
    /\ CacheIdle
    /\ SceneIdle
    /\ \E k \in PacketKinds : packet = [NoPacket EXCEPT !.kind = k]
    /\ globals \in [mStayNo : Rooms]
    /\ queries = <<>>

Stored == LET RECURSIVE Sum(_)
              Sum(r) == IF r >= RoomCount THEN 0 ELSE Len(packet.rooms[r]) + Sum(r + 1)
          IN  Sum(0)

\* newData(pos, roomIdx, ...): a spawner registers one instance.
Packet_newData(roomIdx) ==
    /\ Stored < MaxInstances
    /\ packet' = [packet EXCEPT !.rooms[roomIdx] = Append(@, NewInstance)]
    /\ queries' = <<>>
    /\ UNCHANGED <<globals, stbVars, cacheVars, sceneVars>>

\* d_s_play.draw: calc(frameCount) moves the idle animation on, update
\* rebuilds the animation matrices and walks the rooms.
Packet_update ==
    LET anim == 1 - packet.anim
        st == update(packet.kind, packet.rooms, globals.mStayNo, anim)
    IN  /\ packet' = [packet EXCEPT !.anim = anim, !.rooms = st.rooms]
        /\ queries' = st.queries
        /\ UNCHANGED <<globals, stbVars, cacheVars, sceneVars>>

GrassNext ==
    \/ \E r \in Rooms : Packet_newData(r)
    \/ Packet_update

SpecGrass == GrassInit /\ [][GrassNext]_vars

(***************************************************************************)
(* The packet over the life of a scene: while the stage loads, actors      *)
(* register their instances; once the last actor has loaded the frame loop *)
(* runs and update is called once a frame.                                 *)
(***************************************************************************)
SettleInit ==
    /\ StbIdle
    /\ CacheIdle
    /\ rdr = NoRenderer /\ kytag = NoKytag
    /\ spawn = NoSpawn /\ fv = NoFunctionValue /\ animCall = NoAnim
    /\ drawn = NoDrawn /\ actor = NoActor
    /\ \E k \in PacketKinds : packet = [NoPacket EXCEPT !.kind = k]
    /\ globals \in [mStayNo : Rooms]
    /\ queries = <<>>
    /\ settle = [spawning |-> TRUE, calls |-> 0, F |-> 0,
                 checks |-> [r \in Rooms |-> <<>>]]

\* The instances whose needsGroundCheck flag is set.
Flagged(rooms) ==
    {<<r, i>> \in Rooms \X (1..MaxInstances) :
        i <= Len(rooms[r]) /\ HasBit(rooms[r][i].flags, needsGroundCheck)}

\* The per-instance count of ground checks after the queries q.
Counted(checks, q) ==
    [r \in Rooms |->
        [i \in 1..Len(checks[r]) |->
            checks[r][i]
              + Cardinality({k \in 1..Len(q) : q[k] = [room |-> r, idx |-> i]})]]

Settle_newData(roomIdx) ==
    /\ settle.spawning
    /\ Stored < MaxInstances
    /\ packet' = [packet EXCEPT !.rooms[roomIdx] = Append(@, NewInstance)]
    /\ queries' = <<>>
    /\ settle' = [settle EXCEPT !.checks[roomIdx] = Append(@, 0)]
    /\ UNCHANGED othersOfSettle

\* The last actor has loaded: F instances still wait for their ground check.
Settle_loaded ==
    /\ settle.spawning
    /\ settle' = [settle EXCEPT !.spawning = FALSE,
                                !.F = Cardinality(Flagged(packet.rooms))]
    /\ UNCHANGED <<grassVars, othersOfSettle>>

Settle_update ==
    /\ ~settle.spawning
    /\ settle.calls < MaxSettleCalls
    /\ \E st \in {update(packet.kind, packet.rooms, globals.mStayNo, 1 - packet.anim)} :
          /\ packet' = [packet EXCEPT !.anim = 1 - packet.anim, !.rooms = st.rooms]
          /\ queries' = st.queries
          /\ settle' = [settle EXCEPT
                           !.calls = @ + 1,
                           !.checks = Counted(@, st.queries)]
    /\ UNCHANGED othersOfSettle

SettleNext ==
    \/ \E r \in Rooms : Settle_newData(r)
    \/ Settle_loaded
    \/ Settle_update

\* The frame loop calls update every frame.
SpecSettle == SettleInit /\ [][SettleNext]_vars /\ WF_vars(Settle_update)

(***************************************************************************)
(* The draw calls of the scene: each packet holds instances in some of the *)
(* rooms; every frame the four packets are drawn one after the other.      *)
(***************************************************************************)
DrawInit ==
    /\ StbIdle /\ GrassIdle /\ CacheIdle
    /\ rdr = NoRenderer /\ kytag = NoKytag
    /\ spawn = NoSpawn /\ fv = NoFunctionValue /\ animCall = NoAnim
    /\ settle = NoSettle /\ actor = NoActor
    /\ \E occupied \in [PacketKinds -> SUBSET Rooms] :
          drawn = [materialParams |-> NewMaterialParams, occupied |-> occupied,
                   next |-> 0, batches |-> <<>>]

\* packet.draw(globals, renderInstManager, viewerInput) of the next packet.
Packet_draw ==
    LET kind == DrawOrder[drawn.next + 1]
        st == draw_from(kind, [drawn EXCEPT !.batches = <<>>], 0)
    IN  /\ drawn' = [st EXCEPT !.next = (drawn.next + 1) % Len(DrawOrder)]
        /\ UNCHANGED othersOfDrawn

DrawNext == Packet_draw

SpecDraw == DrawInit /\ [][DrawNext]_vars

(***************************************************************************)
(* An actor object over one sequence: constructed and prepared, its        *)
(* sequence begins, then property-update paragraphs and the update of a    *)
(* wait alternate in any order.  A throw ends the processing.              *)
(***************************************************************************)
DataWords == {[asInt |-> 0, asFloat |-> 0], [asInt |-> 1, asFloat |-> 7]}
WordLists == {<<w, [asInt |-> 0, asFloat |-> 0], w>> : w \in DataWords}
ActorParams ==
    {cmdType * 32 + dataOp :
        cmdType \in {CmdType_PosX, CmdType_POS, CmdType_AnimFrame, CmdType_AnimationMode,
                     CmdType_AnimTransition},
        dataOp \in {EDataOp_None, EDataOp_Void, EDataOp_Immediate}}
ActorPositions == {<<0, 0, 0>>, <<1, 2, 3>>}

ActorInit ==
    /\ StbIdle /\ GrassIdle /\ CacheIdle
    /\ rdr = NoRenderer /\ kytag = NoKytag
    /\ spawn = NoSpawn /\ fv = NoFunctionValue /\ animCall = NoAnim
    /\ settle = NoSettle /\ drawn = NoDrawn
    /\ \E animFrame \in 0..2, texAnimFrame \in 0..2, pos \in ActorPositions :
          LET mObject == [animFrame |-> animFrame, animFrameMax |-> MaxAnimFrame,
                          texAnimFrame |-> texAnimFrame, texAnimFrameMax |-> MaxAnimFrame,
                          animTransition |-> 0, pos |-> pos, rot |-> <<0, 4, 0>>,
                          scale |-> <<1, 1, 1>>, flag |-> 0]
          IN  actor = [phase |-> "prepared", mVariableValues |-> adaptor_do_prepare,
                       mObject |-> mObject, animMode |-> 0, animTexMode |-> 0,
                       threw |-> FALSE, pushed |-> {}, entry |-> mObject,
                       paragraphs |-> 0, updates |-> 0, param |-> 0]

\* STBObject.do_begin
TActorObject_do_begin ==
    /\ actor.phase = "prepared"
    /\ actor' = [adaptor_do_begin(actor) EXCEPT !.phase = "begun",
                                                !.entry = actor.mObject]
    /\ UNCHANGED othersOfActor

TActorObject_do_paragraph(param, words) ==
    /\ actor.phase \in {"begun", "updated"}
    /\ ~actor.threw
    /\ actor.paragraphs < MaxParagraphs
    /\ actor' = [do_paragraph(actor, param, words) EXCEPT
                     !.paragraphs = @ + 1, !.param = param, !.phase = "begun"]
    /\ UNCHANGED othersOfActor

\* STBObject.do_update(frameCount)
TActorObject_do_update(frameCount) ==
    /\ actor.phase \in {"begun", "updated"}
    /\ ~actor.threw
    /\ actor.updates < MaxActorUpdates
    /\ actor' = [adaptor_update(actor, frameCount) EXCEPT
                     !.updates = @ + 1, !.phase = "updated"]
    /\ UNCHANGED othersOfActor

ActorNext ==
    \/ TActorObject_do_begin
    \/ \E param \in ActorParams, words \in WordLists : TActorObject_do_paragraph(param, words)
    \/ \E frameCount \in 0..MaxFrames : TActorObject_do_update(frameCount)

SpecActor == ActorInit /\ [][ActorNext]_vars

(***************************************************************************)
(* The cache as a state machine.  Calls from the scene and the frame loop  *)
(* and the completions of the data fetcher are tasks: each starts with an  *)
(* empty microtask queue, and the queue is drained before the next one.    *)
(***************************************************************************)
CacheInit == StbIdle /\ GrassIdle /\ CacheIdle /\ SceneIdle

Drained == mc.jobs = <<>>

\* One requestObjectData call and what its caller sees.
Poll(w, o, arcName) ==
    LET r == requestObjectData(w, arcName)
    IN  [w |-> r.w,
         obs |-> [o EXCEPT !.poll = [flip |-> 1 - o.poll.flip, arc |-> arcName,
                                     status |-> r.status],
                           !.completed = IF r.status = cPhs_Complete
                                         THEN @ \cup {arcName} ELSE @]]

\* The scene asks for a file.
ModelCache_fetchFileData(path) ==
    /\ Drained
    /\ Len(obs.results) < MaxCalls
    /\ LET call == Len(obs.results) + 1
           id == mc.filePromiseCache[path]
           how == IF id = 0 THEN "first"
                  ELSE IF mc.promises[id].state = "pending" THEN "pending" ELSE "settled"
       IN  /\ mc' = fetchFileData(mc, path, call)
           /\ obs' = [obs EXCEPT !.results = Append(@, [path |-> path, state |-> "pending",
                                                        value |-> 0, how |-> how])]
    /\ UNCHANGED <<stbVars, grassVars, sceneVars>>

\* An actor's subload polls for its archive, once per tick.
ModelCache_requestObjectData(arcName) ==
    /\ Drained
    /\ LET r == Poll(mc, obs, arcName)
       IN  mc' = r.w /\ obs' = r.obs
    /\ UNCHANGED <<stbVars, grassVars, sceneVars>>

\* createScene prefetches an object archive.
ModelCache_fetchObjectData(arcName) ==
    /\ Drained
    /\ obs.objFetches < MaxObjFetches
    /\ mc' = fetchObjectData(mc, arcName)
    /\ obs' = [obs EXCEPT !.objFetches = @ + 1]
    /\ UNCHANGED <<stbVars, grassVars, sceneVars>>

\* The data fetcher completes request f, with its data or with an error.
DataFetcher_settle(f, ok) ==
    /\ Drained
    /\ f \in 1..Len(mc.fetches)
    /\ mc.fetches[f].open
    /\ mc' = Settle([mc EXCEPT !.fetches[f].open = FALSE], mc.fetches[f].promise, ok,
                    IF ok THEN f ELSE 0)
    /\ UNCHANGED <<obs, stbVars, grassVars, sceneVars>>

NextJob(kind) == mc.jobs # <<>> /\ Head(mc.jobs).kind = kind

\* The callback fetchFileData chains on its own fetch: fill fileDataCache,
\* run onloadedcallback (which constructs actors, whose subload may poll
\* for an archive), and hand the data to the caller.
Job_setFileData ==
    /\ NextJob("setFileData")
    /\ LET j == Head(mc.jobs)
           w0 == [mc EXCEPT !.jobs = Tail(@)]
       IN  IF j.ok
           THEN \E a \in ArcNames \cup {"none"} :
                   LET w1 == [w0 EXCEPT !.fileDataCache[j.key] = j.value]
                       o1 == [obs EXCEPT !.results[j.call].state = "fulfilled",
                                         !.results[j.call].value = j.value]
                       r == IF a = "none" THEN [w |-> w1, obs |-> o1] ELSE Poll(w1, o1, a)
                   IN  mc' = r.w /\ obs' = r.obs
           ELSE /\ mc' = w0
                /\ obs' = [obs EXCEPT !.results[j.call].state = "rejected"]
    /\ UNCHANGED <<stbVars, grassVars, sceneVars>>

\* The callback chained on a cached promise: getFileData(path), whose
\* assertExists throws when fileDataCache has no entry.
Job_getFileData ==
    /\ NextJob("getFileData")
    /\ LET j == Head(mc.jobs)
           data == mc.fileDataCache[j.key]
       IN  /\ mc' = [mc EXCEPT !.jobs = Tail(@)]
           /\ obs' = IF j.ok /\ data # 0
                     THEN [obs EXCEPT !.results[j.call].state = "fulfilled",
                                      !.results[j.call].value = data]
                     ELSE [obs EXCEPT !.results[j.call].state = "rejected"]
    /\ UNCHANGED <<stbVars, grassVars, sceneVars>>

\* requestArchiveDataInternal after its await: decompress, parse, enter the
\* archive in archiveCache and settle the function's own promise.
Job_parseArchive ==
    /\ NextJob("parseArchive")
    /\ LET j == Head(mc.jobs)
           w0 == [mc EXCEPT !.jobs = Tail(@)]
       IN  mc' = IF j.ok
                 THEN Settle([w0 EXCEPT !.archiveCache = @ \cup {j.key}], j.call, TRUE, j.value)
                 ELSE Settle(w0, j.call, FALSE, 0)
    /\ UNCHANGED <<obs, stbVars, grassVars, sceneVars>>

\* fetchObjectData after its await: mount the archive in resObj.
Job_mountObject ==
    /\ NextJob("mountObject")
    /\ LET j == Head(mc.jobs)
       IN  mc' = [mc EXCEPT !.jobs = Tail(@),
                            !.resObj = IF j.ok THEN @ \cup {j.key} ELSE @]
    /\ UNCHANGED <<obs, stbVars, grassVars, sceneVars>>

\* createScene of a scenario: the stage becomes current and its archive is
\* requested (rustlib.ts 867, 871).
ModelCache_setCurrentStage(stageName) ==
    /\ Drained
    /\ obs.stageCalls < MaxStageCalls
    /\ mc' = setCurrentStage(mc, stageName)
    /\ obs' = [obs EXCEPT !.stageCalls = @ + 1]
    /\ UNCHANGED <<stbVars, grassVars, sceneVars>>

ModelCache_fetchStageData(arcName) ==
    /\ Drained
    /\ mc.currentStage \in StageNames
    /\ mc.archivePromiseCache[StagePath(mc.currentStage, arcName)] = 0
    /\ mc' = fetchStageData(mc, arcName)
    /\ UNCHANGED <<obs, stbVars, grassVars, sceneVars>>

\* fetchStageData after its await: mount the archive in resStg.
Job_mountStage ==
    /\ NextJob("mountStage")
    /\ LET j == Head(mc.jobs)
       IN  mc' = [mc EXCEPT !.jobs = Tail(@),
                            !.resStg = IF j.ok THEN mountRes(@, j.key, j.value) ELSE @]
    /\ UNCHANGED <<obs, stbVars, grassVars, sceneVars>>

CacheNext ==
    \/ \E path \in FilePaths : ModelCache_fetchFileData(path)
    \/ \E a \in ArcNames : ModelCache_requestObjectData(a)
    \/ \E a \in ArcNames : ModelCache_fetchObjectData(a)
    \/ \E f \in 1..Len(mc.fetches), ok \in BOOLEAN : DataFetcher_settle(f, ok)
    \/ Job_setFileData
    \/ Job_getFileData
    \/ Job_parseArchive
    \/ Job_mountObject

SpecCache == CacheInit /\ [][CacheNext]_vars

(***************************************************************************)
(* The stage side of the cache: scenes make their stage current and ask    *)
(* for its archives while the fetches of earlier scenes are in flight.     *)
(***************************************************************************)
StageNext ==
    \/ \E st \in StageNames : ModelCache_setCurrentStage(st)
    \/ \E a \in StageArcNames : ModelCache_fetchStageData(a)
    \/ \E f \in 1..Len(mc.fetches), ok \in BOOLEAN : DataFetcher_settle(f, ok)
    \/ Job_parseArchive
    \/ Job_mountStage

SpecStage == CacheInit /\ [][StageNext]_vars

(***************************************************************************)
(* The renderer as a state machine: the panels change the settings between *)
(* frames, and each frame is one render call.  rdr.fresh tells that no     *)
(* setting changed since the latest render; rdr.was keeps the toon texture *)
(* as that render found it.                                                *)
(***************************************************************************)
RenderInit ==
    /\ StbIdle /\ GrassIdle /\ CacheIdle
    /\ kytag = NoKytag /\ CalcIdle
    /\ \E a \in QueueEntries, b \in QueueEntries :
          rdr = [NoRenderer EXCEPT !.dwQueue = <<a, b>>]

WindWakerRenderer_render ==
    /\ rdr' = [render(rdr) EXCEPT !.fresh = TRUE, !.was = rdr.toon]
    /\ UNCHANGED othersOfRdr

WindWakerRoom_setVisible(roomNo, v) ==
    /\ rdr.rooms[roomNo] # v
    /\ rdr' = [rdr EXCEPT !.rooms[roomNo] = v, !.fresh = FALSE]
    /\ UNCHANGED othersOfRdr

setVisibleLayerMask(m) ==
    /\ rdr.roomLayerMask # m
    /\ rdr' = [rdr EXCEPT !.roomLayerMask = m, !.fresh = FALSE]
    /\ UNCHANGED othersOfRdr

enableObjects_onchanged(checked) ==
    /\ rdr.objectsVisible # checked
    /\ rdr' = [rdr EXCEPT !.objectsVisible = checked, !.fresh = FALSE]
    /\ UNCHANGED othersOfRdr

toonTexPower_slider(power) ==
    /\ rdr.toonTexPower # power
    /\ rdr' = [rdr EXCEPT !.toonTexPower = power, !.fresh = FALSE]
    /\ UNCHANGED othersOfRdr

RenderNext ==
    \/ WindWakerRenderer_render
    \/ \E n \in RoomNos, v \in BOOLEAN : WindWakerRoom_setVisible(n, v)
    \/ \E m \in LayerMasks : setVisibleLayerMask(m)
    \/ \E c \in BOOLEAN : enableObjects_onchanged(c)
    \/ \E pw \in PowerValues : toonTexPower_slider(pw)

SpecRender == RenderInit /\ [][RenderNext]_vars

(***************************************************************************)
(* The weather trigger as a state machine: subload decodes the actor's     *)
(* parameters, then every tick is one execute call with the probe point    *)
(* of that frame and the night-stop gate as the environment answers it.    *)
(* kytag.tick keeps whether the latest tick was inside the volume, the     *)
(* gate it saw, whether any tick so far was inside, whether it left the    *)
(* volume, the thunder mode found on entering and the rain count the tick  *)
(* found.                                                                  *)
(***************************************************************************)
KytagInit ==
    /\ StbIdle /\ GrassIdle /\ CacheIdle
    /\ rdr = NoRenderer /\ CalcIdle
    /\ \E psel \in {1, 4}, mode \in {0, 1, 7, 8, 9}, inv \in BOOLEAN, era \in {0, 1},
          th \in 0..1, orig \in {0, 100} :
          kytag = [NoKytag EXCEPT !.tag.pselIdx = psel, !.tag.effectMode = mode,
                                  !.tag.invert = inv, !.tag.target = IF inv THEN 10 ELSE 0,
                                  !.env.envrIdxCurr = era, !.env.thunderMode = th,
                                  !.env.rainCount = orig, !.env.rainCountOrig = orig]

kytag00_execute(probe, nightStop) ==
    /\ \E t \in cLib_addCalc(kytag.tag.target, IF kytag.tag.invert THEN 0 ELSE 10) :
          kytag' = [wether_tag_move([kytag EXCEPT !.tag.target = t], probe, nightStop)
                       EXCEPT !.tick = [n |-> 1 - kytag.tick.n, inside |-> InVolume(probe),
                                        nightStop |-> nightStop,
                                        everInside |-> kytag.tick.everInside \/ InVolume(probe),
                                        left |-> kytag.tick.inside /\ ~InVolume(probe),
                                        thunderBefore |-> IF kytag.tick.inside
                                                          THEN kytag.tick.thunderBefore
                                                          ELSE kytag.env.thunderMode,
                                        rainBefore |-> kytag.env.rainCount]]
    /\ UNCHANGED othersOfKytag

KytagNext ==
    \E probe \in Probes, nightStop \in BOOLEAN : kytag00_execute(probe, nightStop)

SpecKytag == KytagInit /\ [][KytagNext]_vars

(***************************************************************************)
(* The grass spawner as a state machine: the actor is created with its     *)
(* parameter word, position, yaw and room, and its subload runs once.      *)
(***************************************************************************)
SpawnInit ==
    /\ StbIdle /\ GrassIdle /\ CacheIdle
    /\ rdr = NoRenderer /\ kytag = NoKytag
    /\ fv = NoFunctionValue /\ animCall = NoAnim /\ LateIdle
    /\ \E p \in SpawnParameters, pos \in SpawnPositions, yaw \in Yaws, r \in Rooms :
          spawn = [NoSpawn EXCEPT !.parameters = p, !.pos = pos, !.rot = yaw, !.roomNo = r]

d_a_grass_subload ==
    /\ ~spawn.loaded /\ ~spawn.threw
    /\ spawn' = subload(spawn)
    /\ UNCHANGED othersOfSpawn

SpawnNext == d_a_grass_subload

SpecSpawn == SpawnInit /\ [][SpawnNext]_vars

(***************************************************************************)
(* A list-parameter curve as a state machine: the block's paragraphs have  *)
(* set its keys and interpolation type, prepare chooses the evaluator,     *)
(* then the curve is evaluated at any time, any number of times.           *)
(***************************************************************************)
FvInit ==
    /\ StbIdle /\ GrassIdle /\ CacheIdle
    /\ rdr = NoRenderer /\ kytag = NoKytag
    /\ spawn = NoSpawn /\ animCall = NoAnim /\ LateIdle
    /\ \E keys \in KeyLists, interp \in InterpolateTypes :
          fv = [NoFunctionValue EXCEPT !.keys = keys, !.keyCount = Len(keys) \div 2,
                                       !.interp = interp]

FunctionValue_prepare ==
    /\ fv.interpFunc = "undefined"
    /\ fv' = [fv EXCEPT !.interpFunc = prepare_interpFunc(fv.interp, fv.keyCount)]
    /\ UNCHANGED othersOfFv

FunctionValue_getValue(timeSec) ==
    /\ fv.interpFunc # "undefined"
    /\ fv' = getValue(fv, timeSec)
    /\ UNCHANGED othersOfFv

FvNext ==
    \/ FunctionValue_prepare
    \/ \E timeSec \in SampleTimes : FunctionValue_getValue(timeSec)

SpecFv == FvInit /\ [][FvNext]_vars

(***************************************************************************)
(* computeAnimFrame as a state machine: one call on the mode word, frame   *)
(* count and frame drawn at the start.                                     *)
(***************************************************************************)
AnimInit ==
    /\ StbIdle /\ GrassIdle /\ CacheIdle
    /\ rdr = NoRenderer /\ kytag = NoKytag
    /\ spawn = NoSpawn /\ fv = NoFunctionValue /\ LateIdle
    /\ \E animMode \in AnimModes, maxFrame \in 0..MaxAnimFrame, frame \in AnimFrames :
          animCall = [NoAnim EXCEPT !.animMode = animMode, !.maxFrame = maxFrame,
                                    !.frame = frame]

TActorAdaptor_computeAnimFrame ==
    /\ ~animCall.done
    /\ animCall' = [animCall EXCEPT
                       !.out = computeAnimFrame(animCall.animMode, animCall.maxFrame,
                                                animCall.frame),
                       !.done = TRUE]
    /\ UNCHANGED othersOfAnim

AnimNext == TActorAdaptor_computeAnimFrame

SpecAnim == AnimInit /\ [][AnimNext]_vars

(***************************************************************************)
(* Properties of the sequencer.  A forward call has returned when          *)
(* run.pc = "ret"; run.entry holds the object as it was on entry,          *)
(* ctl.fwd the objects forwarded in this tick with what each returned,     *)
(* run.budget the frameCount argument, calls the events of the call.       *)
(***************************************************************************)
OfKind(log, kinds) == SelectSeq(log, LAMBDA e : e.ev \in kinds)
Callbacks(log) == OfKind(log, {"begin", "update", "end"})
Updates(log) == [k \in 1..Len(OfKind(log, {"update"})) |-> OfKind(log, {"update"})[k].n]
StatusWrites(log) == [k \in 1..Len(OfKind(log, {"status"})) |-> OfKind(log, {"status"})[k].n]
CmdsRun(log) == [k \in 1..Len(OfKind(log, {"cmd"})) |-> OfKind(log, {"cmd"})[k].n]

Returned == run.pc = "ret" /\ run.cur \in BoundIds
NotStarted(e) == e.mStatus = EStatus_Still /\ ~e.mIsSequence /\ e.pSequence_next = SeqStart

C1_Pre ==
    /\ Returned
    /\ run.entry.mFlags = 0
    /\ NotStarted(run.entry)
    /\ run.entry.mSuspendFrames = 0 /\ ctl.mSuspendFrames = 0
    /\ mData[run.cur][1].cmd = ESequenceCmd_End

\* C1: when the first command of a bound, unflagged, unsuspended object is
\* End, its first forward call (any frameCount) invokes begin, then update
\* once with 0 frames, then end; the status goes Still -> Wait -> End and
\* is never Suspend; the call returns false.
C1_EndFirst ==
    C1_Pre =>
        /\ Callbacks(calls) = <<Ev("begin", 0), Ev("update", 0), Ev("end", 0)>>
        /\ StatusWrites(calls) = <<EStatus_Wait, EStatus_End>>
        /\ obj[run.cur].mStatus = EStatus_End
        /\ run.res = FALSE

C1_Witness == C1_Pre /\ run.budget = 2 /\ obj[run.cur].mStatus = EStatus_End

\* The wait counter the inner loop faces in this iteration, once the
\* command at the saved offset (if one is due) has been executed.
C2_Wait ==
    LET o == obj[run.cur]
        c == CmdAt(mData[run.cur], o.pSequence_next)
    IN  IF o.pSequence_next = 0 THEN 0
        ELSE IF o.mWait # 0 THEN o.mWait
        ELSE IF c.cmd = ESequenceCmd_Wait THEN c.param ELSE 0

C2_Step ==
    (run.pc = "inner" /\ run.cur \in BoundIds) =>
        LET i == run.cur
            w == C2_Wait
            r == run.frameCount
            new == SubSeq(calls', Len(calls) + 1, Len(calls'))
        IN  IF w = 0
            THEN /\ run'.frameCount = r
                 /\ \A k \in 1..Len(Updates(new)) : Updates(new)[k] = 0
            ELSE IF r >= w
            THEN /\ obj'[i].mWait = 0
                 /\ Updates(new) = <<w>>
                 /\ run'.frameCount = r - w
                 /\ run'.pc = "inner"
            ELSE /\ obj'[i].mWait = w - r
                 /\ Updates(new) = <<r>>
                 /\ new[Len(new)] = Ev("update", r)
                 /\ run'.pc = "ret" /\ run'.res = TRUE

\* C2: within one forward call commands run without consuming frame budget
\* until a Wait leaves a nonzero wait counter w; with r frames left, r >= w
\* gives one update of w frames, wait counter 0 and the loop continuing with
\* r - w frames; r < w gives wait counter w - r, one update of r frames, no
\* further command and the return value true.
C2_WaitBudget == [][C2_Step]_vars

C2_Witness ==
    /\ Returned /\ run.res = TRUE /\ run.budget = 2
    /\ obj[run.cur].mWait = 1
    /\ Updates(calls) = <<1, 1>>

C3_Pre ==
    /\ Returned
    /\ run.entry.mFlags = 0
    /\ (run.entry.mSuspendFrames > 0 \/ ctl.mSuspendFrames > 0)

\* C3 as stated: every forward call made while the object or the controller
\* is suspended ends with status Suspend and exactly one update(frameCount).
C3_Original ==
    C3_Pre =>
        /\ obj[run.cur].mStatus = EStatus_Suspend
        /\ Updates(calls) = <<run.budget>>
        /\ CmdsRun(calls) = <<>>
        /\ obj[run.cur].pSequence_next = run.entry.pSequence_next
        /\ run.res = TRUE

\* C3 (amended): a forward call made while the object or the controller is
\* suspended executes no command, keeps the program counter and returns
\* true; a running sequence gets status Suspend and exactly one
\* update(frameCount), an object without a running sequence keeps its
\* status and gets no callback.
C3_SuspendedTick ==
    C3_Pre =>
        /\ CmdsRun(calls) = <<>>
        /\ obj[run.cur].pSequence_next = run.entry.pSequence_next
        /\ run.res = TRUE
        /\ IF run.entry.mIsSequence
           THEN /\ obj[run.cur].mStatus = EStatus_Suspend
                /\ Callbacks(calls) = <<Ev("update", run.budget)>>
           ELSE /\ obj[run.cur].mStatus = run.entry.mStatus
                /\ Callbacks(calls) = <<>>

C3_Witness == C3_Pre /\ run.entry.mIsSequence /\ run.budget = 2 /\ ctl.mSuspendFrames = 0

\* C4 as stated, in the form one tick refutes: a tick of k >= 1 frames on a
\* suspended object lowers its suspend counter.
C4_Original ==
    (/\ Returned /\ run.entry.mFlags = 0
     /\ \A i \in ObjIds : ~hist[i].host
     /\ run.entry.mStatus = EStatus_Suspend /\ run.entry.mSuspendFrames > 0
     /\ run.budget >= 1)
        => obj[run.cur].mSuspendFrames < run.entry.mSuspendFrames

C4_Resumed ==
    /\ Returned
    /\ run.entry.mFlags = 0
    /\ run.entry.mStatus = EStatus_Suspend
    /\ run.entry.mSuspendFrames = 0 /\ ctl.mSuspendFrames = 0

\* C4 (amended): suspension is a gate the host releases, not a countdown:
\* no step of a tick lowers a suspend counter, a tick on a suspended object
\* leaves its counter and program counter as they were, and once the host
\* has set the counter back to 0 the next tick resumes at the saved program
\* counter.
C4_SuspendIsGate ==
    /\ [][ctl.pc # "idle" =>
            \A i \in ObjIds : obj'[i].mSuspendFrames >= obj[i].mSuspendFrames]_vars
    /\ [](( Returned /\ run.entry.mFlags = 0 /\ run.entry.mSuspendFrames > 0) =>
            /\ obj[run.cur].mSuspendFrames = run.entry.mSuspendFrames
            /\ obj[run.cur].pSequence_next = run.entry.pSequence_next)
    /\ [](C4_Resumed =>
            IF run.entry.pSequence_next = 0
            THEN obj[run.cur].mStatus = EStatus_End
            ELSE CmdsRun(calls) # <<>> => CmdsRun(calls)[1] = run.entry.pSequence_next)

C4_Witness ==
    /\ C4_Resumed /\ CmdsRun(calls) # <<>>
    /\ \E k \in 1..Len(mData[run.cur]) : mData[run.cur][k].cmd = ESequenceCmd_Suspend

C5_Pre == Returned /\ run.entry.mFlags = FlagInactive

\* C5: an object whose flag word has 0x8000 set is left Inactive by every
\* forward call, which executes no command, invokes neither begin nor
\* update, invokes end only if a sequence was running, and returns true.
C5_InactiveFlag ==
    C5_Pre =>
        /\ obj[run.cur].mStatus = EStatus_Inactive
        /\ CmdsRun(calls) = <<>>
        /\ CountEv(calls, "begin") = 0 /\ CountEv(calls, "update") = 0
        /\ (CountEv(calls, "end") > 0 => run.entry.mIsSequence)
        /\ obj[run.cur].pSequence_next = run.entry.pSequence_next
        /\ run.res = TRUE

C5_Witness == C5_Pre /\ run.entry.mStatus = EStatus_Inactive /\ run.budget = 1

\* TControl.forward has returned (and has not been called again).
ForwardReturned == ctl.pc = "idle" /\ ctl.fwd # <<>> /\ ctl.threw = "no"

Bit(x, b) == (x \div (2 ^ b)) % 2 = 1

C16_ControlSuspend ==
    /\ mData[CtlObj] # <<>> => ctl.threw = "no"
    /\ (Returned /\ ~hist[CtlObj].host /\ ctl.mSuspendFrames > 0)
          => CmdsRun(calls) = <<>> /\ OfKind(calls, {"end"}) = <<>>

(***************************************************************************)
(* Properties of the foliage packets.  An update call is the step that     *)
(* moves the idle-animation phase on.                                      *)
(***************************************************************************)
IsUpdate == packet'.anim # packet.anim

Slots(rooms) == {<<r, i>> \in Rooms \X (1..MaxInstances + 1) : i <= Len(rooms[r])}
FlaggedSlots(rooms) == {s \in Slots(rooms) : HasBit(rooms[s[1]][s[2]].flags, needsGroundCheck)}
Queried(log) == {<<log[k].room, log[k].idx>> : k \in 1..Len(log)}
Min(a, b) == IF a < b THEN a ELSE b

C6_Step ==
    IsUpdate =>
        LET before == FlaggedSlots(packet.rooms)
            after == FlaggedSlots(packet'.rooms)
            F == Cardinality(before)
        IN  /\ Len(queries') = Min(8, F)
            /\ Cardinality(Queried(queries')) = Len(queries')
            /\ Queried(queries') \subseteq before
            /\ after = before \ Queried(queries')

\* C6: one update call of a Flower, Tree, Grass or Bush packet makes exactly
\* min(8, F) ground-height queries, F being the number of flagged instances
\* over all rooms before the call; exactly the queried instances lose their
\* flag and every other flagged instance keeps it.
C6_GroundCheckBudget == [][C6_Step]_vars

C6_Witness ==
    /\ packet.kind = "Tree"
    /\ Len(queries) = 8
    /\ FlaggedSlots(packet.rooms) # {}
    /\ \E j, k \in 1..Len(queries) : queries[j].room # queries[k].room

\* C7: in every packet's update call the flagged instances of the current
\* room (mStayNo) are ground-checked before any instance of another room,
\* the other rooms follow in ascending index, and no other room is served
\* while the current room still holds flagged instances.
C7_CurrentRoomFirst ==
    LET stay == globals.mStayNo
    IN  /\ \A j, k \in 1..Len(queries) :
              (j < k /\ queries[k].room = stay) => queries[j].room = stay
        /\ \A j, k \in 1..Len(queries) :
              (j < k /\ queries[j].room # stay) => queries[j].room <= queries[k].room
        /\ (\E k \in 1..Len(queries) : queries[k].room # stay) =>
              \A s \in FlaggedSlots(packet.rooms) : s[1] # stay

C8_Step ==
    IsUpdate =>
        \A s \in Slots(packet'.rooms) :
            LET data == packet'.rooms[s[1]][s[2]]
            IN  ~HasBit(data.flags, isFrustumCulled) =>
                    data.modelMtx = ModelMtx(data.y, packet'.anim)

\* C8: every update call recomputes the model matrix of every stored
\* instance whose frustum-culled flag is clear, in every room, however
\* many instances still wait for a ground check.
C8_AllMatricesUpdated == [][C8_Step]_vars

(***************************************************************************)
(* Properties of the cache.                                                *)
(***************************************************************************)
FetchesOf(path) == {f \in 1..Len(mc.fetches) : mc.fetches[f].path = path}
FetchState(f) == mc.promises[mc.fetches[f].promise].state
ResultsOf(path) == {k \in 1..Len(obs.results) : obs.results[k].path = path}

PollStep == obs'.poll.flip # obs.poll.flip

C10_Step ==
    PollStep =>
        LET arcName == obs'.poll.arc
            mounted == /\ arcName \in mc.resObj
                       /\ ObjectPath(arcName) \in mc.archiveCache
                       /\ \E f \in FetchesOf(ObjectPath(arcName)) : FetchState(f) = "fulfilled"
        IN  /\ obs'.poll.status \in {cPhs_Complete, cPhs_Loading}
            /\ obs'.poll.status = cPhs_Complete <=> mounted
            /\ arcName \in obs.completed => obs'.poll.status = cPhs_Complete
            /\ Len(mc'.jobs) = Len(mc.jobs) - (IF Drained THEN 0 ELSE 1)

\* C10: requestObjectData answers at once, with Complete or Loading only:
\* Complete exactly when the archive had been fetched, parsed and mounted
\* in the object resource group before the poll, Loading on every earlier
\* poll, and Complete on every poll after the first Complete.
C10_Polling == [][C10_Step]_vars

C10_Witness ==
    /\ obs.poll.status = cPhs_Complete
    /\ obs.objFetches = 0
    /\ obs.poll.arc \in mc.resObj

\* The stage an archive of the stage list was fetched for.
StageOf(archive) == mc.fetches[archive].path[1]

\* C11: a stage archive requested for a stage that is no longer current is
\* abandoned: the stage list holds only archives of the current stage, and a
\* lookup by archive name never finds an archive fetched for another stage.
C11_Abandoned ==
    /\ \A k \in 1..Len(mc.resStg) : StageOf(mc.resStg[k].archive) = mc.currentStage
    /\ \A a \in StageArcNames :
          findResInfo(mc.resStg, a) # 0 => StageOf(findResInfo(mc.resStg, a)) = mc.currentStage

(***************************************************************************)
(* Properties of the renderer's frame.                                     *)
(***************************************************************************)
OwnPass(list) ==
    IF list \in {"sky0", "sky1"} THEN "skybox"
    ELSE IF list = "effectIndirect" THEN "indirect" ELSE "main"

DrawLists == {"sky0", "sky1", "sea", "main0", "main1", "effectMain", "wetherEffect",
              "effectIndirect"}

OpsAt(op, pass, arg) ==
    {k \in 1..Len(rdr.ops) : rdr.ops[k].op = op /\ rdr.ops[k].pass = pass /\ rdr.ops[k].arg = arg}

Before(A, B) == A # {} /\ B # {} /\ \A a \in A, b \in B : a < b

\* C12: in every render call the passes run in the order host-access upload,
\* full-clear sky pass, depth-clear main pass, peek-Z snapshot, no-clear
\* indirect pass, and every bucket is drawn exactly once, on its own pass,
\* while that pass is open.
C12_PassOrder ==
    rdr.ops # <<>> =>
        /\ Before(OpsAt("upload", "hostAccess", "renderHelper"), OpsAt("create", "skybox", "fullClear"))
        /\ Before(OpsAt("create", "skybox", "fullClear"), OpsAt("create", "main", "depthClear"))
        /\ Before(OpsAt("create", "main", "depthClear"), OpsAt("peekZ.submitFrame", "none", ""))
        /\ Before(OpsAt("peekZ.submitFrame", "none", ""), OpsAt("create", "indirect", "noClear"))
        /\ \A l \in DrawLists :
              /\ Cardinality({k \in 1..Len(rdr.ops) : rdr.ops[k].op = "draw" /\ rdr.ops[k].arg = l}) = 1
              /\ \A k \in 1..Len(rdr.ops) :
                    rdr.ops[k].op = "draw" /\ rdr.ops[k].arg = l
                        => rdr.ops[k].pass = OwnPass(l) /\ rdr.ops[k].open

RoomAndLayerVisible(ac) ==
    /\ ac.roomNo = 0 - 1 \/ rdr.rooms[ac.roomNo]
    /\ ac.roomLayer < 0 \/ (rdr.roomLayerMask \div (2 ^ ac.roomLayer)) % 2 = 1

QueueActors == {k \in 1..Len(rdr.dwQueue) : rdr.dwQueue[k].fopAc}

\* C13 as stated: after a frame every actor of the draw queue is visible
\* exactly when its room and its layer are visible and the objects toggle
\* is on.
C13_Original ==
    rdr.fresh =>
        \A k \in QueueActors :
            rdr.dwQueue[k].visible <=> (RoomAndLayerVisible(rdr.dwQueue[k]) /\ rdr.objectsVisible)

\* C13: after a frame every actor of the draw queue is visible exactly when
\* its room and its layer are visible and, unless it is the background
\* actor d_a_bg, the objects toggle is on.
C13_Visibility ==
    rdr.fresh =>
        \A k \in QueueActors :
            rdr.dwQueue[k].visible <=>
                /\ RoomAndLayerVisible(rdr.dwQueue[k])
                /\ rdr.objectsVisible \/ rdr.dwQueue[k].processName = "d_a_bg"

C13_Witness ==
    /\ rdr.fresh /\ ~rdr.objectsVisible
    /\ \E k \in QueueActors : rdr.dwQueue[k].processName = "d_a_bg" /\ rdr.dwQueue[k].visible
    /\ \E k \in QueueActors :
          /\ rdr.dwQueue[k].processName = "d_a_grass" /\ rdr.dwQueue[k].roomLayer = 1
          /\ RoomAndLayerVisible(rdr.dwQueue[k]) /\ ~rdr.dwQueue[k].visible

ToonUploaded == OpsAt("upload", "toonHostAccess", "DynToonTex") # {}

\* C17: a frame bakes and uploads the toon texture exactly when the
\* configured power differs from the power last baked, and after the frame
\* the baked power is the configured power.
C17_ToonBake ==
    rdr.fresh =>
        /\ ToonUploaded <=> rdr.was.texPower # rdr.toonTexPower
        /\ rdr.toon.texPower = rdr.toonTexPower

C17_Witness ==
    /\ rdr.fresh /\ ToonUploaded
    /\ rdr.was.texPower = 15 /\ rdr.toon.texPower = 1

(***************************************************************************)
(* Properties of the weather trigger.                                      *)
(***************************************************************************)
KytagTick == kytag'.tick.n # kytag.tick.n
ThunderModes == {7, 8, 9}
RainModes == {1, 8, 9}

PaletteNeutral(env) ==
    /\ env.blendPselGather = 0
    /\ env.pselIdxPrevGather = env.weatherPselIdx
    /\ env.pselIdxCurrGather = env.weatherPselIdx

\* What every tick outside the volume does apart from the rain count: on
\* leaving, palette and thunder mode are as before the visit and both flags
\* are clear; on a later tick outside nothing changes.
C14_Outside ==
    KytagTick /\ ~kytag'.tick.inside =>
        IF kytag.tick.inside
        THEN /\ PaletteNeutral(kytag'.env)
             /\ ~kytag'.tag.pselSet /\ ~kytag'.tag.effectSet
             /\ kytag.tag.effectMode \in ThunderModes
                    => kytag'.env.thunderMode = kytag.tick.thunderBefore
             /\ kytag.tag.effectMode \notin ThunderModes
                    => kytag'.env.thunderMode = kytag.env.thunderMode
        ELSE kytag'.env = kytag.env /\ ~kytag'.tag.pselSet /\ ~kytag'.tag.effectSet

C14_OriginalStep ==
    /\ C14_Outside
    /\ KytagTick /\ kytag.tick.inside /\ ~kytag'.tick.inside
            /\ kytag.tag.effectMode \in RainModes
          => kytag'.env.rainCount = kytag.env.rainCountOrig

C14_Step ==
    /\ C14_Outside
    /\ KytagTick /\ kytag.tick.inside /\ ~kytag'.tick.inside
            /\ kytag.tag.effectMode \in RainModes
          => kytag'.env.rainCount = IF kytag'.tick.nightStop THEN kytag.env.rainCount
                                    ELSE kytag.env.rainCountOrig

RECURSIVE CountAll(_, _)
CountAll(rooms, rs) ==
    IF rs = {} THEN 0
    ELSE LET r == CHOOSE x \in rs : TRUE IN Len(rooms[r]) + CountAll(rooms, rs \ {r})

SubloadRan == spawn.loaded \/ spawn.threw

\* C18: for a pattern id in 0..7 subload completes and registers exactly
\* pattern.count instances, all in the packet of the foliage type
\* (parameters >> 4) & 3 and in the actor's room, the j-th at the actor
\* position plus the j-th offset of the pattern's group, that offset turned
\* by the actor yaw for Tree only; the word 0x2 gives 15 Grass instances at
\* the unrotated offsets of group 1.
C18_SpawnDecode ==
    (SubloadRan /\ spawn.parameters % 16 \in 0..7) =>
        LET pattern == kSpawnPatterns[(spawn.parameters % 16) + 1]
            type == (spawn.parameters \div 16) % 4
            offsets == kSpawnOffsets[pattern.group + 1]
            chosen == IF type = FoliageType_Grass THEN spawn.grassPacket
                      ELSE IF type = FoliageType_Tree THEN spawn.treePacket
                      ELSE spawn.flowerPacket
        IN  /\ spawn.loaded
            /\ Len(chosen[spawn.roomNo]) = pattern.count
            /\ CountAll(spawn.grassPacket, Rooms) + CountAll(spawn.treePacket, Rooms)
                  + CountAll(spawn.flowerPacket, Rooms) = pattern.count
            /\ \A j \in 1..pattern.count :
                  chosen[spawn.roomNo][j].pos =
                      vec3_add(spawn.pos, IF type = FoliageType_Tree
                                          THEN transformYRotation(offsets[j], spawn.rot)
                                          ELSE offsets[j])
            /\ spawn.parameters = 2 =>
                  /\ Len(spawn.grassPacket[spawn.roomNo]) = 15
                  /\ \A j \in 1..15 :
                        spawn.grassPacket[spawn.roomNo][j].pos =
                            vec3_add(spawn.pos, kSpawnOffsets[2][j])

C18_Witness ==
    /\ spawn.loaded /\ spawn.parameters = 2 /\ spawn.rot = 32767
    /\ spawn.pos = <<100, 20, -300>>
    /\ Len(spawn.grassPacket[spawn.roomNo]) = 15
    /\ spawn.grassPacket[spawn.roomNo][3].pos = <<233, 20, -300>>

(***************************************************************************)
(* Properties of the list-parameter curve.                                 *)
(***************************************************************************)
KeyTime(keys, i) == RInt(keys[2 * i - 1])
KeyValue(keys, i) == RInt(keys[2 * i])

\* The clamped piecewise-linear function of a key list.
PiecewiseLinear(keys, t) ==
    LET n == Len(keys) \div 2
    IN  IF RGeq(KeyTime(keys, 1), t) THEN KeyValue(keys, 1)
        ELSE IF RGeq(t, KeyTime(keys, n)) THEN KeyValue(keys, n)
        ELSE LET i == CHOOSE k \in 1..(n - 1) :
                          RGeq(t, KeyTime(keys, k)) /\ RGeq(KeyTime(keys, k + 1), t)
             IN  RAdd(KeyValue(keys, i),
                      RDiv(RMul(RSub(KeyValue(keys, i + 1), KeyValue(keys, i)),
                                RSub(t, KeyTime(keys, i))),
                           RSub(KeyTime(keys, i + 1), KeyTime(keys, i))))

\* C19: a curve whose interpolation type is Linear evaluates to the clamped
\* piecewise-linear function of its keys, however many keys it has, and the
\* B-spline evaluator is chosen only for type BSpline with at least 3 keys.
C19_LinearList ==
    /\ (fv.called /\ fv.interp = EInterpolateType_Linear)
          => fv.value = PiecewiseLinear(fv.keys, fv.t)
    /\ fv.interpFunc = "interpolateBSpline"
          => fv.interp = EInterpolateType_BSpline /\ fv.keyCount >= 3

(***************************************************************************)
(* Properties of computeAnimFrame.                                         *)
(***************************************************************************)
AnimCalled(type) ==
    /\ animCall.done /\ animCall.maxFrame > 0
    /\ animCall.animMode \div 256 = 0 /\ animCall.animMode % 256 = type

\* C20: with maxFrame > 0 and no reverse, Repeat returns the frame reduced
\* modulo maxFrame into [0, maxFrame) (for maxFrame 10: 13 -> 3, -2 -> 8)
\* and Clamp returns the frame clamped into [0, maxFrame] (13 -> 10,
\* -2 -> 0).
C20_AnimFrame ==
    /\ AnimCalled(EExtrapolationType_Repeat) =>
          /\ animCall.out \in 0..(animCall.maxFrame - 1)
          /\ (animCall.out - animCall.frame) % animCall.maxFrame = 0
          /\ (animCall.maxFrame = 10 /\ animCall.frame = 13) => animCall.out = 3
          /\ (animCall.maxFrame = 10 /\ animCall.frame = 0 - 2) => animCall.out = 8
    /\ AnimCalled(EExtrapolationType_Clamp) =>
          /\ animCall.out = (IF animCall.frame < 0 THEN 0
                             ELSE IF animCall.frame > animCall.maxFrame
                                  THEN animCall.maxFrame
                                  ELSE animCall.frame)
          /\ (animCall.maxFrame = 10 /\ animCall.frame = 13) => animCall.out = 10
          /\ (animCall.maxFrame = 10 /\ animCall.frame = 0 - 2) => animCall.out = 0

C20_Witness ==
    /\ AnimCalled(EExtrapolationType_Repeat)
    /\ animCall.maxFrame = 10 /\ animCall.frame = 0 - 2 /\ animCall.out = 8

(***************************************************************************)
(* Further properties of the foliage packets.                              *)
(***************************************************************************)
C22_Step ==
    IsUpdate =>
        /\ Len(queries') <= kMaxGroundChecksPerFrame
        /\ \A k \in 1..Len(queries') :
              LET r == queries'[k].room
                  before == packet.rooms[r][queries'[k].idx]
                  after == packet'.rooms[r][queries'[k].idx]
              IN  /\ after.y = (IF GroundCross(r) > NegInfinity THEN GroundCross(r)
                                ELSE before.y)
                  /\ ~HasBit(after.flags, needsGroundCheck)

\* C22: for every packet kind a ground-height query that hits sets the
\* instance's Y to the hit height and one that misses leaves the Y as it
\* was; either way the instance's needsGroundCheck flag is cleared and the
\* query counts against the budget of the update call.
C22_GroundQuery == [][C22_Step]_vars

AllChecked == Flagged(packet.rooms) = {}

C29_Bound ==
    /\ \A r \in Rooms : \A i \in 1..Len(settle.checks[r]) : settle.checks[r][i] <= 1
    /\ (~settle.spawning /\ settle.calls >= (settle.F + 7) \div 8) => AllChecked

\* C29: once no more instances are spawned, repeated update calls clear
\* needsGroundCheck on every instance, after at most ceil(F / 8) calls for
\* F flagged instances, and no instance is ground-checked twice.
C29_Settles ==
    /\ []C29_Bound
    /\ ~settle.spawning ~> AllChecked

C29_Witness ==
    /\ ~settle.spawning
    /\ settle.F > kMaxGroundChecksPerFrame
    /\ settle.calls = 2
    /\ AllChecked
    /\ \A r \in Rooms : \A i \in 1..Len(settle.checks[r]) : settle.checks[r][i] = 1

\* C23: in every packet's per-room draw the material parameters captured
\* for the opaque batch of room r carry room r's ambient colours in C0 and
\* C1; no opaque batch is captured with another room's colours or with the
\* shadow colour left in the block.
C23_RoomColours ==
    \A k \in 1..Len(drawn.batches) :
        LET b == drawn.batches[k]
        IN  b.opaque => b.C0 = colorC0(b.room) /\ b.C1 = colorK0(b.room)

(***************************************************************************)
(* Properties of the actor adaptor.                                        *)
(***************************************************************************)
IsParagraph == actor.phase # "prepared" /\ actor'.paragraphs = actor.paragraphs + 1
IsActorUpdate == actor.phase # "prepared" /\ actor'.updates = actor.updates + 1

\* The tracks a property-update paragraph addresses.
ParagraphTracks(param) ==
    LET keys == ParagraphKeys(param \div 32)
    IN  {k \in ActorTracks : keys.keyIdx <= k /\ k < keys.keyIdx + keys.keyCount}

Disabled(k) == actor.mVariableValues[k].mUpdateFunc = "undefined"

C24_Step ==
    /\ (IsParagraph /\ actor'.param % 32 = EDataOp_Void /\ ParagraphTracks(actor'.param) # {})
         => /\ ~actor'.threw
            /\ \A k \in ParagraphTracks(actor'.param) :
                  actor'.mVariableValues[k].mUpdateFunc = "undefined"
    /\ IsActorUpdate
         => \A k \in ActorTracks :
              Disabled(k) => /\ actor'.mVariableValues[k].mValue = actor.mVariableValues[k].mValue
                             /\ k \notin actor'.pushed

\* C24: a property-update paragraph whose data operator is Void is accepted
\* without error and disables its track(s): the update mode is cleared, and
\* a later update neither changes the track's value nor pushes it.
C24_VoidDisables == [][C24_Step]_vars

\* C25: at sequence begin every track is loaded from the game object's
\* state, the animation frame track from the animation frame and the
\* texture animation frame track from the texture animation frame, so
\* that begin and an update without any property update in between leave
\* the object's animation frame, texture animation frame, translation,
\* rotation and scale as they were (animation mode Raw).
C25_BeginSeeds ==
    /\ (actor.phase = "begun" /\ actor.paragraphs = 0 /\ actor.updates = 0)
         => /\ actor.mVariableValues[EActorTrack_AnimFrame].mUpdateParam
                  = actor.mObject.animFrame
            /\ actor.mVariableValues[EActorTrack_TexAnimFrame].mUpdateParam
                  = actor.mObject.texAnimFrame
    /\ (actor.phase = "updated" /\ actor.paragraphs = 0)
         => /\ actor.mObject.animFrame = actor.entry.animFrame
            /\ actor.mObject.texAnimFrame = actor.entry.texAnimFrame
            /\ actor.mObject.pos = actor.entry.pos
            /\ actor.mObject.rot = actor.entry.rot
            /\ actor.mObject.scale = actor.entry.scale

(***************************************************************************)
(* Invariants of the sequencer.                                            *)
(***************************************************************************)
RECURSIVE SumSeq(_)
SumSeq(s) == IF s = <<>> THEN 0 ELSE Head(s) + SumSeq(Tail(s))

\* C26: the frame amounts passed to update during one forward(frameCount)
\* call sum to exactly frameCount when the call returns true with the
\* sequence running, and to at most frameCount when it returns false; the
\* wait counter is never negative.
C26_BudgetConserved ==
    /\ \A i \in ObjIds : obj[i].mWait >= 0
    /\ Returned =>
          /\ (run.res /\ obj[run.cur].mIsSequence)
                => SumSeq(Updates(calls)) = run.budget
          /\ ~run.res => SumSeq(Updates(calls)) <= run.budget

C26_Witness ==
    /\ Returned /\ run.res /\ obj[run.cur].mIsSequence /\ run.budget = 2
    /\ obj[run.cur].mStatus = EStatus_Suspend
    /\ Updates(calls) = <<1, 1>>

\* Every bound object has 0x8000 clear and no Suspend command.
C27_Pre ==
    \A i \in 1..ctl.mObjects :
        /\ ~HasInactiveFlag(obj[i])
        /\ \A k \in 1..Len(mData[i]) : mData[i][k].cmd # ESequenceCmd_Suspend

\* The script is over: every bound object has status End after one begin
\* and one end, and the latest tick returned false without error.
Finished ==
    /\ ~ctl.ret /\ ctl.threw = "no"
    /\ \A i \in 1..ctl.mObjects :
          obj[i].mStatus = EStatus_End /\ hist[i].begin = 1 /\ hist[i].end = 1

\* C27: if every bound object has 0x8000 clear and a sequence without
\* Suspend, and the host never suspends, ticking with one frame or more
\* leads after finitely many ticks to a tick that returns false, and from
\* then on every object stays End after one begin and one end and every
\* tick returns false.
C27_Terminates == C27_Pre => <>[]Finished

C27_Witness ==
    /\ C27_Pre /\ Finished /\ ctl.pc = "idle"
    /\ Len(ctl.fwd) = 3 /\ \A k \in 1..3 : ~ctl.fwd[k].res
    /\ \A i \in 1..2 : mData[i][1].cmd = ESequenceCmd_Wait

\* Between two ticks: no TControl.forward call is in progress.
TickBoundary == ctl.pc = "idle"
Bound == 1..ctl.mObjects

\* C28 as stated: no assertion of forward fails, and at every tick boundary
\* a running sequence has status Wait or Suspend, an object that has not
\* begun has status Still, and only objects with 0x8000 set are Inactive.
C28_Original ==
    /\ ctl.threw # "assert"
    /\ TickBoundary => \A i \in Bound :
          /\ obj[i].mIsSequence => obj[i].mStatus \in {EStatus_Wait, EStatus_Suspend}
          /\ hist[i].begin = 0 => obj[i].mStatus = EStatus_Still
          /\ obj[i].mStatus = EStatus_Inactive => HasInactiveFlag(obj[i])

\* C28: no assertion of forward fails, and at every tick boundary a running
\* sequence has status Wait or Suspend, an object that has not begun has
\* status Still if its flag word has 0x8000 clear and Still or Inactive if
\* it is set, and only objects with 0x8000 set are Inactive.
C28_Asserts ==
    /\ ctl.threw # "assert"
    /\ TickBoundary => \A i \in Bound :
          /\ obj[i].mIsSequence => obj[i].mStatus \in {EStatus_Wait, EStatus_Suspend}
          /\ hist[i].begin = 0 =>
                obj[i].mStatus \in (IF HasInactiveFlag(obj[i])
                                    THEN {EStatus_Still, EStatus_Inactive}
                                    ELSE {EStatus_Still})
          /\ obj[i].mStatus = EStatus_Inactive => HasInactiveFlag(obj[i])

C28_Witness ==
    /\ TickBoundary /\ ctl.fwd # <<>> /\ ctl.threw = "no"
    /\ obj[1].mIsSequence /\ obj[1].mStatus = EStatus_Suspend
    /\ hist[1].host /\ hist[1].begin = 1

\* The triangle wave of period 2 * m: f folded into [0, m].
TriangleFold(f, m) == LET p == f % (2 * m) IN IF p <= m THEN p ELSE 2 * m - p

\* C21: with maxFrame > 0 and no reverse, Turn returns for every frame,
\* negative ones included, the period-2*maxFrame triangle fold of the
\* frame, a value within [0, maxFrame].
C21_Turn ==
    AnimCalled(EExtrapolationType_Turn) =>
        /\ animCall.out \in 0..animCall.maxFrame
        /\ animCall.out = TriangleFold(animCall.frame, animCall.maxFrame)

\* C30: for every parameter word subload completes without error: the
\* pattern id parameters & 0xF selects a defined pattern whose count is
\* within its offset group.
C30_SubloadCompletes ==
    SubloadRan =>
        /\ spawn.loaded /\ ~spawn.threw
        /\ (spawn.parameters % 16) + 1 \in DOMAIN kSpawnPatterns
        /\ LET pattern == kSpawnPatterns[(spawn.parameters % 16) + 1]
           IN  pattern.count <= Len(kSpawnOffsets[pattern.group + 1])

====
